---- MODULE Spec2Model ----
(***************************************************************************)
(* Order execution, position ledger and daily risk state of the Binance    *)
(* spot trading bot (main.py, src/order_manager.py,                        *)
(* src/position_manager.py, src/binance_client.py).                        *)
(*                                                                         *)
(* Numbers are fixed point.  A price is an integer number of tenths        *)
(* (1000 is 100.0), a quantity an integer number of millionths (1000000    *)
(* is 1.0), a percentage an integer number of basis points (250 is 2.5%),  *)
(* and a currency amount is a price times a quantity.  The values the      *)
(* specifications draw are chosen so that every division the code does on  *)
(* them is exact.  Python's None is the integer None for numeric fields.   *)
(* Timestamps are [day, hour] records; the entry_time of a position is     *)
(* never read back by the code and is left out.                            *)
(***************************************************************************)
EXTENDS Integers, Sequences, FiniteSets, TLC

VARIABLES
    positions,      \* PositionManager.positions: dict symbol -> position
    diskPositions,  \* contents of positions.json
    daily_pnl,      \* PositionManager.daily_pnl
    dailyFile,      \* contents of daily_pnl.json: <<>> (no file) or <<record>>
    tradeLog,       \* logs/trade_history.log, one record per line
    clock,          \* datetime.now(timezone.utc) as [day, hour]
    exFree,         \* exchange: free base-asset balance per symbol
    exLocked,       \* exchange: locked base-asset balance per symbol
    exOrder,        \* exchange: the limit buy order place_limit_buy submitted
    ev,             \* what the last operation did (history variable)
    buy,            \* OrderManager.place_limit_buy: the call in progress
    config,         \* the configuration the PositionManager was built from
    saving          \* PositionManager.save_positions: the call in progress

pmVars   == <<positions, diskPositions, daily_pnl, dailyFile, tradeLog>>
exVars   == <<exFree, exLocked, exOrder>>
vars     == <<positions, diskPositions, daily_pnl, dailyFile, tradeLog, clock,
              exFree, exLocked, exOrder, ev, buy, config, saving>>

None == -1

Symbols == {"BTCUSDT", "ETHUSDT"}

\* ---------------------------------------------------------------- bounds
MaxDay      == 2    \* days the clock runs over
HoursPerDay == 3    \* hours of a (compressed) day
MaxTrades   == 2    \* closes the ledger specifications account
MaxMainTrades == 1  \* closes the loop accounts
MaxCycleTrades == 2 \* closes of the day in the trading cycle

\* ------------------------------------------------- configuration defaults
max_positions                   == 5
daily_loss_limit_percent        == 300
daily_profit_protection_percent == 300
initial_percent                 == 250
atr_multiplier                  == 2
\* daily_tracking.reset_hour_utc, configured to hour 1 of the compressed day
\* so that a day has hours before the reset hour (the default is 0)
reset_hour_utc                  == 1

\* No save_positions call is in progress.
SaveIdle == [pc |-> "idle"]

\* The configuration of the defaults.
DefaultConfig ==
    [max_positions |-> max_positions,
     protection_mode_behavior |-> "stop_new_entries"]

Max(a, b) == IF a >= b THEN a ELSE b
Min(a, b) == IF a <= b THEN a ELSE b

\* x * (bp / 100) / 100 for a percentage given in basis points
PctOf(x, bp) == (x * bp) \div 10000

EmptyDict == [s \in {} |-> 0]
DictPut(d, k, v) == [x \in (DOMAIN d) \cup {k} |-> IF x = k THEN v ELSE d[x]]
DictDel(d, k) == [x \in (DOMAIN d) \ {k} |-> d[x]]

\* ------------------------------------------------------- PositionManager
\* The state of a PositionManager as one value, so that calls compose.
PM == [positions |-> positions, diskPositions |-> diskPositions,
       daily_pnl |-> daily_pnl, dailyFile |-> dailyFile,
       tradeLog |-> tradeLog, raised |-> FALSE,
       max_positions |-> config.max_positions,
       protection_mode_behavior |-> config.protection_mode_behavior]

SetPM(r) ==
    /\ positions' = r.positions
    /\ diskPositions' = r.diskPositions
    /\ daily_pnl' = r.daily_pnl
    /\ dailyFile' = r.dailyFile
    /\ tradeLog' = r.tradeLog

\* save_positions: the temp file replaces positions.json only when every
\* step succeeded; any failure leaves positions.json as it was and raises.
save_positions(pm, writeOk) ==
    IF writeOk
    THEN [pm EXCEPT !.diskPositions = pm.positions]
    ELSE [pm EXCEPT !.raised = TRUE]

\* save_daily_pnl: a failed write is logged and swallowed.
save_daily_pnl(pm, writeOk) ==
    IF writeOk THEN [pm EXCEPT !.dailyFile = <<pm.daily_pnl>>] ELSE pm

FreshDaily(now) ==
    [reset_date |-> now, realized_pnl |-> 0, unrealized_pnl |-> 0,
     total_pnl |-> 0, trades_count |-> 0, wins |-> 0, losses |-> 0]

\* _reset_daily_pnl
reset_daily_pnl(pm, now, writeOk) ==
    save_daily_pnl([pm EXCEPT !.daily_pnl = FreshDaily(now)], writeOk)

\* _should_reset_daily_pnl: a new calendar day, and the hour is past the
\* reset hour.
should_reset_daily_pnl(daily, now) ==
    /\ now.day > daily.reset_date.day
    /\ now.hour >= reset_hour_utc

\* load_daily_pnl, called by the constructor only.
load_daily_pnl(pm, now, readOk, writeOk) ==
    IF pm.dailyFile # <<>> /\ readOk
    THEN LET loaded == [pm EXCEPT !.daily_pnl = pm.dailyFile[1]]
         IN  IF should_reset_daily_pnl(loaded.daily_pnl, now)
             THEN reset_daily_pnl(loaded, now, writeOk)
             ELSE loaded
    ELSE reset_daily_pnl(pm, now, writeOk)

\* What positions.json holds after a write that stopped half way: text that
\* json.load cannot parse.
Truncated == [s \in {"<truncated>"} |-> 0]

\* load_positions: a file that cannot be read or parsed yields an empty
\* ledger.
load_positions(pm, readOk) ==
    [pm EXCEPT !.positions = IF readOk /\ pm.diskPositions # Truncated
                             THEN pm.diskPositions ELSE EmptyDict]

\* is_in_protection_mode
is_in_protection_modeMutant(pm) ==
    pm.daily_pnl.total_pnl >= daily_profit_protection_percent

is_in_protection_mode(pm) ==
    IF pm.protection_mode_behavior = "disabled" THEN FALSE
    ELSE pm.daily_pnl.total_pnl >= daily_profit_protection_percent

has_hit_daily_loss_limitMutant(pm) == FALSE

has_hit_daily_loss_limit(pm) ==
    pm.daily_pnl.total_pnl <= -daily_loss_limit_percent

\* can_open_new_position, as <<can_open, reason>>
can_open_new_positionMutant(pm, symbol) ==
    IF symbol \in DOMAIN pm.positions
    THEN <<FALSE, "Already have position in this symbol">>
    ELSE IF Cardinality(DOMAIN pm.positions) > pm.max_positions
    THEN <<FALSE, "Max positions limit reached">>
    ELSE IF is_in_protection_mode(pm)
    THEN <<FALSE, "Profit protection mode active">>
    ELSE IF has_hit_daily_loss_limit(pm)
    THEN <<FALSE, "Daily loss limit hit">>
    ELSE <<TRUE, "OK">>

can_open_new_position(pm, symbol) ==
    IF symbol \in DOMAIN pm.positions
    THEN <<FALSE, "Already have position in this symbol">>
    ELSE IF Cardinality(DOMAIN pm.positions) >= pm.max_positions
    THEN <<FALSE, "Max positions limit reached">>
    ELSE IF is_in_protection_mode(pm)
    THEN <<FALSE, "Profit protection mode active">>
    ELSE IF has_hit_daily_loss_limit(pm)
    THEN <<FALSE, "Daily loss limit hit">>
    ELSE <<TRUE, "OK">>

PositionDataMutant(entry_price, quantity, side, order_id, initial_stop_percent) ==
    [side |-> side,
     entry_price |-> entry_price,
     quantity |-> quantity,
     order_id |-> order_id,
     highest_price |-> IF side = "BUY" THEN entry_price ELSE None,
     lowest_price |-> IF side = "SELL" THEN entry_price ELSE None,
     stop_loss |-> entry_price - PctOf(entry_price, initial_stop_percent),
     trailing_stop |-> None,
     initial_stop_percent |-> initial_stop_percent]

PositionData(entry_price, quantity, side, order_id, initial_stop_percent) ==
    [side |-> side,
     entry_price |-> entry_price,
     quantity |-> quantity,
     order_id |-> order_id,
     highest_price |-> IF side = "BUY" THEN entry_price ELSE None,
     lowest_price |-> IF side = "SELL" THEN entry_price ELSE None,
     stop_loss |-> IF side = "BUY"
                   THEN entry_price - PctOf(entry_price, initial_stop_percent)
                   ELSE entry_price + PctOf(entry_price, initial_stop_percent),
     trailing_stop |-> None,
     initial_stop_percent |-> initial_stop_percent]

\* add_position: the entry is stored, then saved; a failed save deletes the
\* symbol's entry from memory and raises.
add_position(pm, symbol, entry_price, quantity, side, order_id, writeOk) ==
    LET data == PositionData(entry_price, quantity, side, order_id, initial_percent)
        stored == [pm EXCEPT !.positions = DictPut(pm.positions, symbol, data)]
        saved == save_positions(stored, writeOk)
    IN  IF saved.raised
        THEN [saved EXCEPT !.positions = DictDel(stored.positions, symbol)]
        ELSE saved

\* "Only tighten, never loosen": the test that guards the assignment of
\* position['trailing_stop'].
TightensStopMutant(long, old_stop, new_trailing_stop) == TRUE

TightensStop(long, old_stop, new_trailing_stop) ==
    \/ old_stop = None
    \/ IF long THEN new_trailing_stop > old_stop
       ELSE new_trailing_stop < old_stop

\* update_trailing_stop: the position is changed in memory, then saved; a
\* failed save is logged and swallowed.  logger says whether the manager was
\* constructed with a logger: the debug line written when the stop is
\* tightened has an invalid format specification, so with a logger the call
\* raises there, after the change in memory and before the save.
update_trailing_stop(pm, symbol, current_price, atr_value, logger, writeOk) ==
    IF symbol \notin DOMAIN pm.positions THEN pm
    ELSE
    LET position == pm.positions[symbol]
        old_stop == position.trailing_stop
        stop_distance == IF atr_value # None /\ atr_value > 0
                         THEN atr_value * atr_multiplier
                         ELSE PctOf(current_price, position.initial_stop_percent)
        long == position.side = "BUY"
        seen == IF long THEN position.highest_price ELSE position.lowest_price
        moved == IF long THEN current_price > seen ELSE current_price < seen
        new_trailing_stop == IF long THEN current_price - stop_distance
                             ELSE current_price + stop_distance
        tighter == TightensStop(long, old_stop, new_trailing_stop)
        p1 == IF ~moved THEN position
              ELSE IF long THEN [position EXCEPT !.highest_price = current_price]
              ELSE [position EXCEPT !.lowest_price = current_price]
        p2 == IF tighter THEN [p1 EXCEPT !.trailing_stop = new_trailing_stop] ELSE p1
        changed == [pm EXCEPT !.positions = DictPut(pm.positions, symbol, p2)]
    IN  IF tighter /\ logger
        THEN [changed EXCEPT !.raised = TRUE]
        ELSE [save_positions(changed, writeOk) EXCEPT !.raised = FALSE]

\* A should_close_position that looks at the trailing stop first.
should_close_positionMutant(pm, symbol, current_price) ==
    IF symbol \notin DOMAIN pm.positions THEN <<FALSE, "None">>
    ELSE
    LET position == pm.positions[symbol]
        armed == position.trailing_stop # None /\ position.trailing_stop # 0
    IN  IF position.side = "BUY"
        THEN IF armed /\ current_price <= position.trailing_stop
             THEN <<TRUE, "TRAILING_STOP">>
             ELSE IF current_price <= position.stop_loss THEN <<TRUE, "STOP_LOSS">>
             ELSE <<FALSE, "None">>
        ELSE IF armed /\ current_price >= position.trailing_stop
             THEN <<TRUE, "TRAILING_STOP">>
             ELSE IF current_price >= position.stop_loss THEN <<TRUE, "STOP_LOSS">>
             ELSE <<FALSE, "None">>

\* should_close_position, as <<should_close, reason>>
should_close_position(pm, symbol, current_price) ==
    IF symbol \notin DOMAIN pm.positions THEN <<FALSE, "None">>
    ELSE
    LET position == pm.positions[symbol]
        armed == position.trailing_stop # None /\ position.trailing_stop # 0
    IN  IF position.side = "BUY"
        THEN IF current_price <= position.stop_loss THEN <<TRUE, "STOP_LOSS">>
             ELSE IF armed /\ current_price <= position.trailing_stop
                  THEN <<TRUE, "TRAILING_STOP">>
             ELSE <<FALSE, "None">>
        ELSE IF current_price >= position.stop_loss THEN <<TRUE, "STOP_LOSS">>
             ELSE IF armed /\ current_price >= position.trailing_stop
                  THEN <<TRUE, "TRAILING_STOP">>
             ELSE <<FALSE, "None">>

\* The realized profit of a close, as remove_position computes it:
\* percent (basis points) and currency.
profit_percent(position, close_price) ==
    IF position.side = "BUY"
    THEN ((close_price - position.entry_price) * 10000) \div position.entry_price
    ELSE ((position.entry_price - close_price) * 10000) \div position.entry_price

profit_usd(position, close_price) ==
    IF position.side = "BUY"
    THEN (close_price - position.entry_price) * position.quantity
    ELSE (position.entry_price - close_price) * position.quantity

TradeData(symbol, position, close_price, reason) ==
    [symbol |-> symbol, side |-> position.side,
     exit_time |-> clock,
     entry_price |-> position.entry_price, exit_price |-> close_price,
     quantity |-> position.quantity,
     profit_percent |-> profit_percent(position, close_price),
     profit_usd |-> profit_usd(position, close_price),
     reason |-> reason]

\* log_trade: appends one line; a failed append is logged and swallowed.
log_trade(pm, symbol, position, close_price, reason, logOk) ==
    IF logOk
    THEN [pm EXCEPT !.tradeLog = Append(@, TradeData(symbol, position, close_price, reason))]
    ELSE pm

\* The daily risk state after absorbing one close.
AbsorbCloseMutant(daily, position, close_price) ==
    LET usd == profit_usd(position, close_price)
    IN  [daily EXCEPT !.realized_pnl = @ + usd,
                      !.trades_count = @ + 1,
                      !.wins = IF usd >= 0 THEN @ + 1 ELSE @,
                      !.losses = IF usd >= 0 THEN @ ELSE @ + 1,
                      !.total_pnl = @ + profit_percent(position, close_price)]

AbsorbClose(daily, position, close_price) ==
    LET usd == profit_usd(position, close_price)
    IN  [daily EXCEPT !.realized_pnl = @ + usd,
                      !.trades_count = @ + 1,
                      !.wins = IF usd > 0 THEN @ + 1 ELSE @,
                      !.losses = IF usd > 0 THEN @ ELSE @ + 1,
                      !.total_pnl = @ + profit_percent(position, close_price)]

\* remove_position: with a close price the daily risk state is updated and
\* saved and the trade is logged; then the entry is deleted and the ledger
\* saved.  A failed ledger save puts the entry back and raises.
remove_position(pm, symbol, close_price, reason, io) ==
    IF symbol \notin DOMAIN pm.positions THEN pm
    ELSE
    LET position == pm.positions[symbol]
        priced == close_price # None /\ close_price # 0
        absorbed == [pm EXCEPT !.daily_pnl = AbsorbClose(@, position, close_price)]
        logged == IF priced
                  THEN log_trade(save_daily_pnl(absorbed, io.dailyOk),
                                 symbol, position, close_price, reason, io.logOk)
                  ELSE pm
        deleted == [logged EXCEPT !.positions = DictDel(@, symbol)]
        saved == save_positions(deleted, io.posOk)
    IN  IF saved.raised
        THEN [saved EXCEPT !.positions = DictPut(deleted.positions, symbol, position)]
        ELSE saved

\* ------------------------------------------------ Lot/Price rules resolver
QtyUnit   == 1000 * 1000    \* quantity units in 1.0
QtyDigits == 3 + 3          \* decimal places of a quantity unit
PriceDigits == 0 + 1        \* decimal places of a price unit

RECURSIVE Pow10(_)
Pow10(n) == IF n <= 0 THEN 1 ELSE 10 * Pow10(n - 1)

RECURSIVE TrailingZeros(_)
TrailingZeros(n) == IF n <= 0 \/ n % 10 # 0 THEN 0 ELSE 1 + TrailingZeros(n \div 10)

\* len(str(step).split('.')[-1].rstrip('0')) for the float step * 10^-digits:
\* Python prints a float below 0.0001 as d[.ddd]e-0N, and what follows the
\* last '.' (or the whole text when there is none) then has 5 characters for
\* every step of one or two significant digits; otherwise it is the number
\* of decimal places of the step.
Precision(step, digits) ==
    IF digits > 4 /\ step < Pow10(digits - 4) THEN 5
    ELSE Max(0, digits - TrailingZeros(step))

\* round(x, precision) on units of 10^-digits, ties to even
RoundTo(x, precision, digits) ==
    IF precision >= digits THEN x
    ELSE LET m == Pow10(digits - precision)
             lo == (x \div m) * m
             r == x - lo
         IN  IF 2 * r < m THEN lo
             ELSE IF 2 * r > m THEN lo + m
             ELSE IF (lo \div m) % 2 = 0 THEN lo ELSE lo + m

\* value % step on floats is the exact remainder of the two doubles.  The
\* double nearest to the decimal k * step lies under k times the double
\* nearest to step for the multiples k listed here (steps 0.000001 to 0.001
\* of a quantity and the tick 0.1 of a price, k up to 15, and the limit
\* price 99.8 under the entry price 100.0); no multiple of a step 1.0 or
\* 10.0 does.
LostMultiples(step, digits) ==
    CASE digits = QtyDigits /\ step = 1 -> {13}
      [] digits = QtyDigits /\ step = 10 -> {3, 5, 6, 7, 9, 10, 11, 12, 13, 14, 15}
      [] digits = QtyDigits /\ step = 100 -> {3, 5, 6, 7, 9, 10, 12, 13, 14, 15}
      [] digits = QtyDigits /\ step = 1000 -> {9, 11, 13, 15}
      [] digits = PriceDigits /\ step = 1 ->
            {3, 5, 6, 7, 9, 10, 12, 13, 14, 15, 998}
      [] OTHER -> {}

\* For such a multiple the remainder is just under step instead of 0, and
\* value - (value % step) is just over the multiple before.
FloatRemainder(value, step, digits) ==
    IF value % step = 0 /\ (value \div step) \in LostMultiples(step, digits)
    THEN step
    ELSE value % step

RoundStep(value, step, digits) ==
    RoundTo(value - FloatRemainder(value, step, digits), Precision(step, digits),
            digits)

round_step_size(quantity, step_size) == RoundStep(quantity, step_size, QtyDigits)

round_price(price, tick_size) == RoundStep(price, tick_size, PriceDigits)

\* The exchange's LOT_SIZE filter of every symbol: 0.001 / 0.003 / 0.001
LotSize == [minQty |-> 1000, maxQty |-> 3 * 1000, stepSize |-> 1000]
NoRules == [minQty |-> None, maxQty |-> None, stepSize |-> None]

\* get_lot_size_filter: (None, None, None) when the symbol info cannot be
\* read or holds no LOT_SIZE filter.
get_lot_size_filter(rulesOk) == IF rulesOk THEN LotSize ELSE NoRules

Truthy(x) == x # None /\ x # 0

\* get_asset_total_balance: (free, locked, total), and (0, 0, 0) when the
\* balance cannot be read.
get_asset_total_balance(ex, readOk) ==
    IF readOk
    THEN [free |-> ex.free, locked |-> ex.locked, total |-> ex.free + ex.locked]
    ELSE [free |-> 0, locked |-> 0, total |-> 0]

\* cancel_all_open_orders: on the exchange, cancelled orders release what
\* they locked; a failed listing or cancellation releases nothing.
cancel_all_open_orders(ex, cancelOk) ==
    IF cancelOk THEN [free |-> ex.free + ex.locked, locked |-> 0] ELSE ex

\* ----------------------------------------------------- Exchange gateway
TickerPrices == {960, 1000, 1040}   \* what get_symbol_price can report
FillPrices   == {950}               \* prices a market sell can fill at

\* get_symbol_price: a price, or None when the ticker cannot be read
PriceResponses == TickerPrices \cup {None}

\* get_symbol_price when close_position falls back to it
FallbackPrices == {970, None}

\* sum(price * qty) / sum(qty) over the fills of an order
RECURSIVE SumCost(_)
SumCost(fills) ==
    IF fills = <<>> THEN 0
    ELSE fills[1].price * fills[1].qty + SumCost(Tail(fills))

RECURSIVE SumQty(_)
SumQty(fills) == IF fills = <<>> THEN 0 ELSE fills[1].qty + SumQty(Tail(fills))

AvgFillPrice(fills) == SumCost(fills) \div SumQty(fills)

\* create_market_sell_order as the exchange answers it.  An order the free
\* balance covers and the lot size allows fills at some price, or is
\* accepted and expires without a fill (no liquidity); an order for more
\* than the free balance is rejected with the API error -2010 'insufficient
\* balance'; any order can be refused with another API error; the wrapper
\* turns either API error into None.  Any order can fail with an exception
\* of another class, which escapes the wrapper: with or without the text
\* 'insufficient balance'.
create_market_sell_order(ex, quantity) ==
    (IF quantity <= ex.free /\ quantity >= LotSize.minQty
           /\ quantity % LotSize.stepSize = 0
     THEN {[kind |-> "order", status |-> "FILLED",
            fills |-> <<[price |-> p, qty |-> quantity]>>,
            ex |-> [ex EXCEPT !.free = @ - quantity], executed |-> quantity]
              : p \in FillPrices}
          \cup {[kind |-> "order", status |-> "EXPIRED", fills |-> <<>>,
                 ex |-> ex, executed |-> 0]}
     ELSE {})
    \cup {[kind |-> k, status |-> "None", fills |-> <<>>, ex |-> ex, executed |-> 0]
            : k \in {"api_error", "exception", "exc_insufficient"}
                    \cup (IF quantity > ex.free THEN {"api_insufficient"} ELSE {})}

\* ------------------------------------------- OrderManager.close_position
\* A phantom check that sees an empty balance only.
IsPhantomMutant(rules, bal) == Truthy(rules.minQty) /\ bal.total <= 0

\* Lines 318 and 402: the total balance is below the minimum order size.
IsPhantom(rules, bal) == Truthy(rules.minQty) /\ bal.total < rules.minQty

\* Lines 324, 333 and 407: the balance just read has a locked part.
StillLockedMutant(bal) == FALSE

StillLocked(bal) == bal.locked > 0

\* One way a close_position call can go: what it returned, the exchange's
\* balances after it, and what it did on the way.  trace lists, in order,
\* the calls it made on the exchange that read or change the balance.
CloseOutcome(ret, price, ex, sells, sellQty, executed, balanceOk, rulesOk, total, locked, trace) ==
    [ret |-> ret, price |-> price, ex |-> ex, sells |-> sells,
     sellQty |-> sellQty, executed |-> executed, balanceOk |-> balanceOk,
     rulesOk |-> rulesOk, total |-> total, locked |-> locked, trace |-> trace]

\* The entries of a trace: get_asset_total_balance with the balances it
\* returned, cancel_all_open_orders, and create_market_sell_order with
\* the quantity and how the exchange answered.
ReadCall(bal) ==
    [call |-> "get_asset_total_balance", free |-> bal.free, locked |-> bal.locked,
     total |-> bal.total]
CancelCall == [call |-> "cancel_all_open_orders"]
SellCall(quantity, order) ==
    [call |-> "create_market_sell_order", quantity |-> quantity, answer |-> order.kind]

\* Lines 368-378 and 418-423: what a sell order object is turned into.
SellResult(order) ==
    IF order.fills # <<>>
    THEN {[ret |-> "PRICE", price |-> AvgFillPrice(order.fills)]}
    ELSE {[ret |-> IF Truthy(fb) THEN "PRICE" ELSE "None", price |-> fb]
            : fb \in FallbackPrices}

\* Lines 380-433: the handler of an exception raised by the sell.
CloseRetry(ex, insufficient, sells, sellQty, balanceOk0, rulesOk0, trace0) ==
    IF ~insufficient
    THEN {CloseOutcome("None", None, ex, sells, sellQty, 0, balanceOk0, rulesOk0,
                       None, None, trace0)}
    ELSE UNION {
      LET ex2 == cancel_all_open_orders(ex, cancelOk)
          bal == get_asset_total_balance(ex2, balanceOk)
          rules == get_lot_size_filter(rulesOk)
          retry_qty == round_step_size(bal.free, rules.stepSize)
          trace == trace0 \o <<CancelCall, ReadCall(bal)>>
          out(ret, price, e, n, q, x, tr) ==
              CloseOutcome(ret, price, e, n, q, x, balanceOk, rulesOk, bal.total,
                           bal.locked, tr)
      IN  IF IsPhantom(rules, bal)
          THEN {out("PHANTOM_POSITION", None, ex2, sells, sellQty, 0, trace)}
          ELSE IF StillLocked(bal)
          THEN {out("None", None, ex2, sells, sellQty, 0, trace)}
          ELSE IF bal.free > 0 /\ Truthy(rules.minQty)
          THEN IF retry_qty >= rules.minQty
               THEN UNION {
                      LET tr == Append(trace, SellCall(retry_qty, order))
                      IN
                      IF order.kind = "order"
                      THEN {out(r.ret, r.price, order.ex, sells + 1, retry_qty,
                                order.executed, tr)
                              : r \in SellResult(order)}
                      ELSE IF order.kind \in {"api_error", "api_insufficient"}
                      THEN {out("None", None, order.ex, sells + 1, retry_qty, 0, tr)}
                      ELSE {out("RAISED", None, order.ex, sells + 1, retry_qty, 0, tr)}
                      : order \in create_market_sell_order(ex2, retry_qty)}
               ELSE {out("None", None, ex2, sells, sellQty, 0, trace)}
          ELSE {out("None", None, ex2, sells, sellQty, 0, trace)}
      : cancelOk \in BOOLEAN, balanceOk \in BOOLEAN, rulesOk \in BOOLEAN}

\* Lines 345-348: with a minimum quantity, the quantized quantity is below it.
BelowMinMutant(rules, quantity) == FALSE

BelowMin(rules, quantity) == Truthy(rules.minQty) /\ quantity < rules.minQty

\* Lines 340-378: the quantity to sell, the minimum checks and the sell.
CloseSell(ex, quantity0, bal, rules, balanceOk, rulesOk, trace) ==
    LET q1 == IF bal.free * 100 < quantity0 * 99 THEN bal.free ELSE quantity0
        quantity == IF Truthy(rules.minQty) THEN round_step_size(q1, rules.stepSize) ELSE q1
        out(ret, price, e, n, q, x, tr) ==
            CloseOutcome(ret, price, e, n, q, x, balanceOk, rulesOk, bal.total,
                         bal.locked, tr)
    IN  IF BelowMin(rules, quantity)
        THEN IF bal.total >= rules.minQty
             THEN {out("None", None, ex, 0, None, 0, trace)}
             ELSE {out("BELOW_MIN_QTY", None, ex, 0, None, 0, trace)}
        ELSE IF quantity <= 0
        THEN {out("ZERO_QUANTITY", None, ex, 0, None, 0, trace)}
        ELSE UNION {
               LET tr == Append(trace, SellCall(quantity, order))
               IN
               IF order.kind = "order"
               THEN {out(r.ret, r.price, order.ex, 1, quantity, order.executed, tr)
                       : r \in SellResult(order)}
               ELSE IF order.kind \in {"api_error", "api_insufficient"}
               THEN {out("None", None, order.ex, 1, quantity, 0, tr)}
               ELSE CloseRetry(order.ex, order.kind = "exc_insufficient", 1, quantity,
                               balanceOk, rulesOk, tr)
               : order \in create_market_sell_order(ex, quantity)}

\* close_position(symbol, quantity) on a symbol whose balances on the
\* exchange are ex: every way the call can go, given how its first reads of
\* the balance and of the rules went.
CloseFrom(ex, quantity, balanceOk, rulesOk) ==
      LET bal == get_asset_total_balance(ex, balanceOk)
          rules == get_lot_size_filter(rulesOk)
      IN  IF IsPhantom(rules, bal)
          THEN {CloseOutcome("PHANTOM_POSITION", None, ex, 0, None, 0,
                             balanceOk, rulesOk, bal.total, bal.locked,
                             <<ReadCall(bal)>>)}
          ELSE IF StillLocked(bal)
          THEN UNION {
                 LET ex2 == cancel_all_open_orders(ex, cancelOk)
                     bal2 == get_asset_total_balance(ex2, balance2Ok)
                     trace == <<ReadCall(bal), CancelCall, ReadCall(bal2)>>
                 IN  IF StillLocked(bal2)
                     THEN {CloseOutcome("None", None, ex2, 0, None, 0,
                                        balance2Ok, rulesOk, bal2.total, bal2.locked,
                                        trace)}
                     ELSE CloseSell(ex2, quantity, bal2, rules, balance2Ok, rulesOk, trace)
                 : cancelOk \in BOOLEAN, balance2Ok \in BOOLEAN}
          ELSE CloseSell(ex, quantity, bal, rules, balanceOk, rulesOk, <<ReadCall(bal)>>)

\* An outcome with what the call read first: whether the balance and the
\* rules could be read, and the total balance it was given.
WithFirst(o, balanceOk, rulesOk, total) ==
    [f \in (DOMAIN o) \cup {"first"} |->
        IF f = "first"
        THEN [balanceOk |-> balanceOk, rulesOk |-> rulesOk, total |-> total]
        ELSE o[f]]

close_position(ex, quantity) ==
    UNION {
      {WithFirst(o, balanceOk, rulesOk, get_asset_total_balance(ex, balanceOk).total)
         : o \in CloseFrom(ex, quantity, balanceOk, rulesOk)}
      : balanceOk \in BOOLEAN, rulesOk \in BOOLEAN}

\* ---------------------------------------- OrderManager.place_limit_buy
\* The order on the exchange: its true status and executed quantity.
NoOrder == [status |-> "NONE", executed |-> 0, qty |-> 0, price |-> 0]

\* What place_limit_buy returns: None or the dict of lines 173-178.
NoneResult == [kind |-> "None"]
BuyResult(price, quantity, order_id) ==
    [kind |-> "result", price |-> price, quantity |-> quantity, order_id |-> order_id]

\* The call: where it is, and its locals.
BuyIdle == [pc |-> "idle", elapsed |-> 0, limit_price |-> None,
            quantity |-> None, order_id |-> None, result |-> NoneResult,
            calls |-> [orders |-> 0, polls |-> 0, terminal |-> FALSE,
                       cancels |-> 0, refetches |-> 0]]

max_wait_time  == 30
check_interval == 2
max_retries    == 3

\* A call of the exchange that gave nothing: the wrapper returned None.
NoResponse == [status |-> "NO_RESPONSE"]

OpenStatuses == {"NEW", "PARTIALLY_FILLED"}
DeadStatuses == {"CANCELED", "REJECTED", "EXPIRED"}

\* The trades the exchange holds for the order: none, one trade of one lot
\* step at the limit price, or that trade and a second one of the rest of
\* the executed quantity at a price 0.4 better.
OrderTrades(order) ==
    IF order.executed = 0 THEN <<>>
    ELSE IF order.executed <= LotSize.stepSize
    THEN <<[price |-> order.price, qty |-> order.executed]>>
    ELSE <<[price |-> order.price, qty |-> LotSize.stepSize],
           [price |-> order.price - 4, qty |-> order.executed - LotSize.stepSize]>>

\* get_order_status: no response, or the order's status with an executedQty
\* that is the executed quantity or still 0 (absent from the response, or
\* not yet booked), a price that is the limit price or 0, and fills that
\* are there or not.
StatusResponses(order) ==
    {NoResponse} \cup
    [status : {order.status},
     executedQty : {0, order.executed},
     price : {0, order.price},
     fills : {<<>>, OrderTrades(order)}]

\* _get_trades_for_order_with_retry: the first attempt that finds trades of
\* the order; an attempt that raises or finds none is followed by the next.
RECURSIVE FirstTrades(_)
FirstTrades(attempts) ==
    IF attempts = <<>> THEN <<>>
    ELSE IF attempts[1] # <<>> THEN attempts[1]
    ELSE FirstTrades(Tail(attempts))

get_trades_for_order_with_retry(attempts) ==
    FirstTrades(SubSeq(attempts, 1, max_retries))

\* What the max_retries attempts can find of an order: each nothing (an
\* error, or the trade is not listed yet) or the order's trades.
TradeAttempts(order) == [1..max_retries -> {<<>>, OrderTrades(order)}]

TradesResponses(order) ==
    {get_trades_for_order_with_retry(attempts) : attempts \in TradeAttempts(order)}

\* _calculate_avg_price_from_trades, as <<avg_price, total_qty>>
calculate_avg_price_from_tradesMutant(trades, fallback_price) ==
    IF trades = <<>> THEN <<0, 0>>
    ELSE IF SumQty(trades) > 0
         THEN <<SumCost(trades) \div SumQty(trades), SumQty(trades)>>
         ELSE <<fallback_price, 0>>

calculate_avg_price_from_trades(trades, fallback_price) ==
    IF trades = <<>> THEN <<fallback_price, 0>>
    ELSE IF SumQty(trades) > 0
         THEN <<SumCost(trades) \div SumQty(trades), SumQty(trades)>>
         ELSE <<fallback_price, 0>>

\* Lines 159-168, 207-215 and 278-286: the price of a result, from the
\* fills of the status, else its price, else (price 0) from the trades.
AvgPrice(st, trades, limit_price) ==
    LET avg_price == IF st.fills # <<>> THEN AvgFillPrice(st.fills) ELSE st.price
    IN  IF avg_price = 0
        THEN calculate_avg_price_from_trades(trades, limit_price)[1]
        ELSE avg_price

\* Lines 192-204, 243-255 and 263-275: a result when the trades show an
\* execution, else None.
FromTradesMutant(trades, limit_price, order_id) ==
    LET calc == calculate_avg_price_from_trades(trades, limit_price)
    IN  IF trades # <<>> /\ calc[2] > 0
        THEN BuyResult(limit_price, calc[2], order_id)
        ELSE NoneResult

FromTrades(trades, limit_price, order_id) ==
    LET calc == calculate_avg_price_from_trades(trades, limit_price)
    IN  IF trades # <<>> /\ calc[2] > 0
        THEN BuyResult(calc[1], calc[2], order_id)
        ELSE NoneResult

Continue == [kind |-> "continue"]

\* Lines 151-229: one turn of the polling loop on the status st; retry is
\* the status of line 188, trades what the trade history gave.
PollStatus(st, retry, trades, limit_price, order_id) ==
    IF st = NoResponse THEN Continue
    ELSE IF st.status = "FILLED"
    THEN BuyResult(AvgPrice(st, trades, limit_price), st.executedQty, order_id)
    ELSE IF st.status \in DeadStatuses
    THEN LET executed_qty == IF st.executedQty = 0 /\ retry # NoResponse
                             THEN retry.executedQty
                             ELSE st.executedQty
         IN  IF executed_qty = 0
             THEN FromTrades(trades, limit_price, order_id)
             ELSE BuyResult(AvgPrice(st, trades, limit_price), executed_qty, order_id)
    ELSE Continue

\* Lines 237-298: the result after the cancellation, on the status final.
FinalStatus(final, trades, limit_price, order_id) ==
    IF final = NoResponse THEN FromTrades(trades, limit_price, order_id)
    ELSE IF final.executedQty = 0 THEN FromTrades(trades, limit_price, order_id)
    ELSE BuyResult(AvgPrice(final, trades, limit_price), final.executedQty, order_id)

\* get_price_filter: tickSize 0.1, or nothing
TickSize == 0 + 1
get_price_filter(rulesOk) == IF rulesOk THEN TickSize ELSE None

\* calculate_quantity: amount_usd (in 0.0001 USD) over the price, rounded
\* down to the step, None below the minimum, capped at the maximum.
calculate_quantity(price, amount_usd, rulesOk) ==
    LET rules == get_lot_size_filter(rulesOk)
        quantity == round_step_size((amount_usd * 1000) \div price, rules.stepSize)
    IN  IF ~Truthy(rules.minQty) THEN None
        ELSE IF quantity < rules.minQty THEN None
        ELSE IF Truthy(rules.maxQty) /\ quantity > rules.maxQty THEN rules.maxQty
        ELSE quantity

\* ------------------------------------------------------ main: the loop
Ex(symbol) == [free |-> exFree[symbol], locked |-> exLocked[symbol]]

SetEx(symbol, ex) ==
    /\ exFree' = [exFree EXCEPT ![symbol] = ex.free]
    /\ exLocked' = [exLocked EXCEPT ![symbol] = ex.locked]
    /\ exOrder' = exOrder

SentinelsMutant == {"PHANTOM_POSITION", "BELOW_MIN_QTY", "ZERO_QUANTITY", "None"}

Sentinels == {"PHANTOM_POSITION", "BELOW_MIN_QTY", "ZERO_QUANTITY"}

\* f"{reason}_PHANTOM"
PhantomReason(reason) ==
    IF reason = "STOP_LOSS" THEN "STOP_LOSS_PHANTOM" ELSE "TRAILING_STOP_PHANTOM"

RemoveIO == [posOk : BOOLEAN, dailyOk : BOOLEAN, logOk : BOOLEAN]

\* In the loop only the ledger write is let fail: the writes of
\* daily_pnl.json and of the trade log fail in SpecLedger.
MainRemoveIO == {io \in RemoveIO : io.dailyOk /\ io.logOk}

NoClose == [ret |-> "NOT_CALLED"]

\* What an iteration did; the price is recorded when close_position was
\* called.

ManageEvent(symbol, path, current_price, close, removeCalled, removeRaised) ==
    [op |-> "manage", symbol |-> symbol, path |-> path,
     current_price |-> current_price,
     close |-> [f \in (DOMAIN close) \ {"ex", "trace"} |-> close[f]],
     removeCalled |-> removeCalled, removeRaised |-> removeRaised]

\* main.py lines 144-153 and 162-171: what the loop does with the result
\* of close_position.
HandleCloseResult(symbol, current_price, reason, o) ==
    /\ SetEx(symbol, o.ex)
    /\ IF o.ret \in Sentinels
       THEN \E io \in MainRemoveIO :
              LET r == remove_position(PM, symbol, current_price, PhantomReason(reason), io)
              IN  /\ SetPM(r)
                  /\ ev' = ManageEvent(symbol, "close", current_price, o, TRUE, r.raised)
       ELSE IF o.ret = "PRICE"
       THEN \E io \in MainRemoveIO :
              LET r == remove_position(PM, symbol, o.price, reason, io)
              IN  /\ SetPM(r)
                  /\ ev' = ManageEvent(symbol, "close", current_price, o, TRUE, r.raised)
       ELSE /\ UNCHANGED pmVars
            /\ ev' = ManageEvent(symbol, "close", current_price, o, FALSE, FALSE)

\* main.py lines 119-175, the body of the loop over the open positions, for
\* one symbol.  Line 135 calls TechnicalIndicators.get_atr_for_trailing_stop,
\* which the class does not define: whenever the candles and the indicators
\* are there, the AttributeError ends the symbol's turn (line 173), so that
\* update_trailing_stop and the exit-signal branch (lines 136-154) never run
\* and the stop check of line 157 runs only without indicators.
ManageUpTo(symbol, max_trades) ==
    /\ symbol \in DOMAIN positions
    /\ daily_pnl.trades_count < max_trades
    /\ UNCHANGED <<config, saving, clock, buy>>
    /\ \E current_price \in PriceResponses :
         IF ~Truthy(current_price)
         THEN /\ ev' = ManageEvent(symbol, "no_price", current_price, NoClose, FALSE, FALSE)
              /\ UNCHANGED <<pmVars, exVars>>
         ELSE \E indicators \in BOOLEAN :
           IF indicators
           THEN /\ ev' = ManageEvent(symbol, "indicators_error", None, NoClose, FALSE, FALSE)
                /\ UNCHANGED <<pmVars, exVars>>
           ELSE LET sc == should_close_position(PM, symbol, current_price)
                IN  IF ~sc[1]
                    THEN /\ ev' = ManageEvent(symbol, "hold", None, NoClose, FALSE, FALSE)
                         /\ UNCHANGED <<pmVars, exVars>>
                    ELSE \E o \in close_position(Ex(symbol), positions[symbol].quantity) :
                           HandleCloseResult(symbol, current_price, sc[2], o)

\* The ledgers positions.json can hold when the process starts: per symbol
\* no entry, an entry as add_position wrote it, or one whose trailing stop
\* update_trailing_stop armed at 104.0.
EntryPrice == 100 * 10       \* 100.0
EntryQty == 2 * 1000         \* 0.002
TrailPrice == 104 * 10       \* 104.0

StoredPosition(armed) ==
    LET fresh == [PM0 |-> [positions |-> [s \in {"x"} |->
                    PositionData(EntryPrice, EntryQty, "BUY", 7, initial_percent)],
                  diskPositions |-> EmptyDict, raised |-> FALSE]]
    IN  IF armed
        THEN update_trailing_stop(fresh.PM0, "x", TrailPrice, None, FALSE, TRUE).positions["x"]
        ELSE fresh.PM0.positions["x"]

InitialLedgers ==
    UNION { [S -> {StoredPosition(FALSE), StoredPosition(TRUE)}] : S \in SUBSET Symbols }

InitClock == [day |-> 0, hour |-> 0]

\* The base-asset balances the exchange can hold for a symbol at the start:
\* nothing, dust below the minimum quantity, half of the ledger's quantity,
\* the quantity less a 0.1% commission, the quantity, and half of it locked
\* by a resting order.
NoBalance == [free |-> 0, locked |-> 0]
ExStates ==
    {NoBalance, [free |-> 500, locked |-> 0], [free |-> 1000, locked |-> 0],
     [free |-> 1998, locked |-> 0], [free |-> 2000, locked |-> 0],
     [free |-> 1000, locked |-> 1000]}

InitMain ==
    /\ saving = SaveIdle
    /\ config = DefaultConfig
    /\ diskPositions \in InitialLedgers
    /\ positions = diskPositions
    /\ clock = InitClock
    /\ daily_pnl = FreshDaily(clock)
    /\ dailyFile = <<daily_pnl>>
    /\ tradeLog = <<>>
    /\ \E ex \in [Symbols -> ExStates] :
         /\ \A s \in Symbols \ DOMAIN diskPositions : ex[s] = NoBalance
         /\ exFree = [s \in Symbols |-> ex[s].free]
         /\ exLocked = [s \in Symbols |-> ex[s].locked]
    /\ ev = [op |-> "init"]
    /\ exOrder = NoOrder
    /\ buy = BuyIdle

ManagePosition(symbol) == ManageUpTo(symbol, MaxMainTrades)

NextMain == \E symbol \in Symbols : ManagePosition(symbol)

SpecMain == InitMain /\ [][NextMain]_vars

\* ================================================== the ledger on its own
\* The three operations that change the ledger, each with a write that may
\* fail, called the way main.py calls them: add_position for a symbol
\* without an entry (line 197), the other two for a symbol with one.
LedgerEvent(op, symbol, priced, raised) ==
    [op |-> op, symbol |-> symbol, priced |-> priced, raised |-> raised]

OrderIds == {7}
TrailPrices == {TrailPrice}
AtrValues == {None, 10}
ClosePrices == {960, 1040}

LedgerAdd(symbol) ==
    /\ symbol \notin DOMAIN positions
    /\ \E order_id \in OrderIds, writeOk \in BOOLEAN :
         LET r == add_position(PM, symbol, EntryPrice, EntryQty, "BUY", order_id, writeOk)
         IN  /\ SetPM(r)
             /\ ev' = LedgerEvent("add", symbol, FALSE, r.raised)
    /\ UNCHANGED <<config, saving, clock, exVars, buy>>

LedgerTrail(symbol) ==
    /\ symbol \in DOMAIN positions
    /\ \E current_price \in TrailPrices, atr_value \in AtrValues,
          logger \in BOOLEAN, writeOk \in BOOLEAN :
         LET r == update_trailing_stop(PM, symbol, current_price, atr_value, logger, writeOk)
         IN  /\ SetPM(r)
             /\ ev' = LedgerEvent("trail", symbol, FALSE, r.raised)
    /\ UNCHANGED <<config, saving, clock, exVars, buy>>

LedgerRemoveWith(symbol, prices, ios) ==
    /\ symbol \in DOMAIN positions
    /\ daily_pnl.trades_count < MaxTrades
    /\ Len(tradeLog) < MaxTrades
    /\ \E close_price \in prices, io \in ios :
         LET r == remove_position(PM, symbol, close_price, "STOP_LOSS", io)
         IN  /\ SetPM(r)
             /\ ev' = LedgerEvent("remove", symbol, Truthy(close_price), r.raised)
    /\ UNCHANGED <<config, saving, clock, exVars, buy>>

LedgerRemove(symbol) == LedgerRemoveWith(symbol, ClosePrices \cup {None}, RemoveIO)

InitLedger ==
    /\ saving = SaveIdle
    /\ config = DefaultConfig
    /\ positions = EmptyDict
    /\ diskPositions = EmptyDict
    /\ clock = InitClock
    /\ daily_pnl = FreshDaily(clock)
    /\ dailyFile = <<daily_pnl>>
    /\ tradeLog = <<>>
    /\ exFree = [s \in Symbols |-> 0]
    /\ exLocked = [s \in Symbols |-> 0]
    /\ ev = [op |-> "init"]
    /\ exOrder = NoOrder
    /\ buy = BuyIdle

\* add_position for a symbol that has an entry: the method does not look
\* for one (the loop asks has_position first, main.py line 187).  The order
\* id tells the second entry from the first.
ReOrderId == 7 + 1

LedgerReAdd(symbol) ==
    /\ symbol \in DOMAIN positions
    /\ positions[symbol].order_id # ReOrderId
    /\ \E writeOk \in BOOLEAN :
         LET r == add_position(PM, symbol, EntryPrice, EntryQty, "BUY", ReOrderId, writeOk)
         IN  /\ SetPM(r)
             /\ ev' = LedgerEvent("add", symbol, FALSE, r.raised)
    /\ UNCHANGED <<config, saving, clock, exVars, buy>>

NextLedger ==
    \E symbol \in Symbols :
       \/ LedgerAdd(symbol)
       \/ LedgerReAdd(symbol)
       \/ LedgerTrail(symbol)
       \/ LedgerRemove(symbol)

SpecLedger == InitLedger /\ [][NextLedger]_vars

\* ==================================================== the ledger over days
\* The clock: hours of compressed days.
Tick ==
    /\ \/ clock.hour + 1 < HoursPerDay
       \/ clock.day < MaxDay
    /\ clock' = IF clock.hour + 1 < HoursPerDay
                THEN [clock EXCEPT !.hour = @ + 1]
                ELSE [day |-> clock.day + 1, hour |-> 0]
    /\ ev' = LedgerEvent("tick", "", FALSE, FALSE)
    /\ UNCHANGED <<config, saving, pmVars, exVars, buy>>

\* The process starts again: PositionManager.__init__ loads positions.json
\* and daily_pnl.json, either of which may be unreadable.
Restart ==
    /\ \E posReadOk \in BOOLEAN, dailyReadOk \in BOOLEAN, dailyWriteOk \in BOOLEAN :
         SetPM(load_daily_pnl(load_positions(PM, posReadOk), clock, dailyReadOk, dailyWriteOk))
    /\ ev' = LedgerEvent("restart", "", FALSE, FALSE)
    /\ UNCHANGED <<config, saving, clock, exVars, buy>>

DailyOpen(symbol) ==
    /\ symbol \in DOMAIN diskPositions => symbol \in DOMAIN positions
    /\ LedgerAdd(symbol)

DailyRemoveIO == {io \in RemoveIO : io.posOk /\ io.logOk}

DailyClose(symbol) == LedgerRemoveWith(symbol, ClosePrices, DailyRemoveIO)

DailySymbols == {"BTCUSDT"}

NextDaily ==
    \/ Tick
    \/ Restart
    \/ \E symbol \in DailySymbols : DailyOpen(symbol)
    \/ \E symbol \in DailySymbols : DailyClose(symbol)

SpecDaily == InitLedger /\ [][NextDaily]_vars

\* ============================================== place_limit_buy in steps
BuySymbol == "BTCUSDT"
BuyOrderId == 6 + 1
BuyPrices == {EntryPrice, None}      \* get_symbol_price: 100.0 or nothing
Amounts == {500, 2000, 4000}         \* amount_usd: 0.05, 0.2 and 0.4 USD

BuyEvent(step) == [op |-> "buy", step |-> step]

\* line 147: the condition that ends the loop `while elapsed < max_wait_time`
PollingCeilingReachedMutant(elapsed) == elapsed >= max_wait_time - check_interval

PollingCeilingReached(elapsed) == elapsed >= max_wait_time

\* lines 148-149: time.sleep(check_interval); elapsed += check_interval
NextElapsedMutant(elapsed) == elapsed

NextElapsed(elapsed) == elapsed + check_interval

\* Lines 124-125: the limit price, 0.2% under the price read, rounded down
\* to the tick.
LimitPriceMutant(current_price, tick_size) ==
    round_price((current_price * 1002) \div 1000, tick_size)

LimitPrice(current_price, tick_size) ==
    round_price((current_price * 998) \div 1000, tick_size)

\* Lines 115-145: up to the submitted order.
BuyStart ==
    /\ buy.pc = "idle"
    /\ \E current_price \in BuyPrices, tickOk \in BOOLEAN, rulesOk \in BOOLEAN,
          amount_usd \in Amounts, orderOk \in BOOLEAN :
         LET tick_size == get_price_filter(tickOk)
             limit_price == LimitPrice(current_price, tick_size)
             quantity == calculate_quantity(limit_price, amount_usd, rulesOk)
             submitted == /\ Truthy(current_price)
                          /\ Truthy(tick_size)
                          /\ Truthy(quantity)
         IN  /\ IF ~submitted \/ ~orderOk
                THEN /\ buy' = [buy EXCEPT
                                  !.pc = "done",
                                  !.calls.orders = IF submitted THEN 1 ELSE 0]
                     /\ exOrder' = exOrder
                ELSE /\ buy' = [pc |-> "poll", elapsed |-> 0,
                                limit_price |-> limit_price,
                                quantity |-> quantity, order_id |-> BuyOrderId,
                                result |-> NoneResult,
                                calls |-> [BuyIdle.calls EXCEPT !.orders = 1]]
                     /\ exOrder' = [status |-> "NEW", executed |-> 0,
                                    qty |-> quantity, price |-> limit_price]
             /\ ev' = [op |-> "buy", step |-> "start",
                       current_price |-> current_price, amount_usd |-> amount_usd,
                       submitted |-> submitted,
                       quantity |-> IF submitted THEN quantity ELSE None,
                       limit_price |-> IF Truthy(current_price) /\ Truthy(tick_size)
                                       THEN limit_price ELSE None]
    /\ UNCHANGED <<config, saving, pmVars, clock, exFree, exLocked>>

\* Lines 147-229: one turn of the polling loop.
BuyPoll ==
    /\ buy.pc = "poll"
    /\ ~PollingCeilingReached(buy.elapsed)
    /\ \E st \in StatusResponses(exOrder), retry \in StatusResponses(exOrder),
          attempts \in TradeAttempts(exOrder) :
         LET trades == get_trades_for_order_with_retry(attempts)
             r == PollStatus(st, retry, trades, buy.limit_price, buy.order_id)
             dead == st # NoResponse /\ st.status \in DeadStatuses
             terminal == st # NoResponse /\ st.status \in {"FILLED"} \cup DeadStatuses
         IN  /\ buy' = IF r = Continue
                       THEN [buy EXCEPT !.elapsed = NextElapsed(@),
                                        !.calls.polls = @ + 1,
                                        !.calls.terminal = terminal]
                       ELSE [buy EXCEPT !.elapsed = NextElapsed(@),
                                        !.calls.polls = @ + 1,
                                        !.calls.terminal = terminal,
                                        !.pc = "done", !.result = r]
             /\ ev' = IF dead
                      THEN [op |-> "buy", step |-> "poll_dead", st |-> st,
                            retry |-> retry, attempts |-> attempts]
                      ELSE BuyEvent("poll")
    /\ UNCHANGED <<config, saving, pmVars, clock, exVars>>

\* Lines 231-236: the polling ceiling is reached; cancel_order, whose result
\* is not looked at.  The exchange cancels an order that is still open,
\* unless the request fails.
BuyCancel ==
    /\ buy.pc = "poll"
    /\ PollingCeilingReached(buy.elapsed)
    /\ \E cancelOk \in BOOLEAN :
         exOrder' = IF cancelOk /\ exOrder.status \in OpenStatuses
                    THEN [exOrder EXCEPT !.status = "CANCELED"]
                    ELSE exOrder
    /\ buy' = [buy EXCEPT !.pc = "final", !.calls.cancels = @ + 1]
    /\ ev' = BuyEvent("cancel")
    /\ UNCHANGED <<config, saving, pmVars, clock, exFree, exLocked>>

\* Lines 237-298: the status after the cancellation, and the result.
BuyFinal ==
    /\ buy.pc = "final"
    /\ \E final \in StatusResponses(exOrder), trades \in TradesResponses(exOrder) :
         buy' = [buy EXCEPT !.pc = "done",
                            !.calls.refetches = @ + 1,
                            !.result = FinalStatus(final, trades, buy.limit_price,
                                                   buy.order_id)]
    /\ ev' = BuyEvent("final")
    /\ UNCHANGED <<config, saving, pmVars, clock, exVars>>

\* The exchange matches the open order, in part or whole.
ExchangeFill ==
    /\ exOrder.status \in OpenStatuses
    /\ \E executed \in {exOrder.qty \div 2, exOrder.qty} :
         /\ executed > exOrder.executed
         /\ exOrder' = [exOrder EXCEPT
                           !.executed = executed,
                           !.status = IF executed = exOrder.qty
                                      THEN "FILLED" ELSE "PARTIALLY_FILLED"]
         /\ exFree' = [exFree EXCEPT ![BuySymbol] = @ + (executed - exOrder.executed)]
    /\ UNCHANGED <<config, saving, pmVars, clock, exLocked, ev, buy>>

\* The exchange ends the open order on its own.
ExchangeEnd ==
    /\ exOrder.status \in OpenStatuses
    /\ \E status \in {"CANCELED", "EXPIRED"} :
         exOrder' = [exOrder EXCEPT !.status = status]
    /\ UNCHANGED <<config, saving, pmVars, clock, exFree, exLocked, ev, buy>>

NextBuy ==
    \/ BuyStart
    \/ BuyPoll
    \/ BuyCancel
    \/ BuyFinal
    \/ ExchangeFill
    \/ ExchangeEnd

SpecBuy == InitLedger /\ [][NextBuy]_vars

\* The call runs on: the interpreter takes the next step of place_limit_buy,
\* every gateway call and every sleep returning.  Nothing is assumed of the
\* exchange.
SpecBuyFair ==
    /\ SpecBuy
    /\ WF_vars(BuyStart)
    /\ WF_vars(BuyPoll)
    /\ WF_vars(BuyCancel)
    /\ WF_vars(BuyFinal)

\* ===================================================== claims on the loop
Managed == ev.op = "manage"
Closing == Managed /\ ev.path = "close"

\* The call sold: a market sell was executed for a positive quantity.
SoldSomething == Closing /\ ev.close.ret = "PRICE" /\ ev.close.executed > 0

\* C3: close_position returns a price only when a market sell order was
\* executed on the exchange with an executed quantity above zero.
C3_PriceOnlyWhenSold ==
    (Closing /\ ev.close.ret = "PRICE") => ev.close.executed > 0

\* C4: an entry leaves the ledger only after a confirmed sell fill or after
\* the exchange reported a total balance below the minimum quantity; a
\* failed read never removes one.
C4_RemovedOnlyWhenConfirmed ==
    [][\A s \in DOMAIN positions :
          s \notin DOMAIN positions' =>
             LET e == ev' IN
                \/ e.close.ret = "PRICE" /\ e.close.executed > 0
                \/ /\ e.close.ret \in Sentinels
                   /\ e.close.balanceOk
                   /\ e.close.total < LotSize.minQty]_vars

\* The first reads of the call gave the balance and the rules, and the total
\* balance is below the minimum quantity.
FirstReadBelowMin ==
    /\ Closing
    /\ ev.close.first.balanceOk /\ ev.close.first.rulesOk
    /\ ev.close.first.total < LotSize.minQty

\* C5 as stated: when the exchange reports a total balance below the
\* minimum quantity for a symbol of the ledger, close_position returns the
\* phantom sentinel, submits no market sell during the call, and the loop
\* removes the entry in the same iteration.
C5_PhantomAlwaysRemoved ==
    FirstReadBelowMin =>
       /\ ev.close.ret = "PHANTOM_POSITION"
       /\ ev.close.sells = 0
       /\ ev.symbol \notin DOMAIN positions

\* C5 amended: in that case close_position returns the phantom sentinel and
\* submits no market sell, and the loop calls remove_position in the same
\* iteration; the entry is gone from memory and from positions.json unless
\* the write of positions.json fails, and then remove_position raises and
\* the entry stays in both.
C5_PhantomRemovedUnlessWriteFails ==
    FirstReadBelowMin =>
       /\ ev.close.ret = "PHANTOM_POSITION"
       /\ ev.close.sells = 0
       /\ ev.removeCalled
       /\ IF ev.removeRaised
          THEN ev.symbol \in DOMAIN positions /\ ev.symbol \in DOMAIN diskPositions
          ELSE ev.symbol \notin DOMAIN positions /\ ev.symbol \notin DOMAIN diskPositions

\* A dust balance was reported, the sentinel returned and the entry removed.
C5_Witness ==
    /\ FirstReadBelowMin
    /\ ev.close.first.total > 0
    /\ ev.close.ret = "PHANTOM_POSITION"
    /\ ~ev.removeRaised
    /\ ev.symbol \notin DOMAIN positions

\* C8: the daily risk state changes only when a position is closed by a
\* confirmed sell fill, and then by the profit at the fill price.
C8_DailyChangesOnlyOnFill ==
    [][daily_pnl' # daily_pnl =>
         LET e == ev' IN
            /\ e.close.ret = "PRICE" /\ e.close.executed > 0
            /\ tradeLog' # <<>>
            /\ tradeLog'[Len(tradeLog')].exit_price = e.close.price]_vars

\* C10: the quantity the realized profit of a close is computed on is the
\* quantity the sell executed.
C10_ClosedQuantityIsExecuted ==
    (SoldSomething /\ ev.removeCalled /\ tradeLog # <<>>) =>
        tradeLog[Len(tradeLog)].quantity = ev.close.executed

\* =================================================== claims on the ledger
\* C6: whenever a ledger operation has returned or raised, the positions in
\* memory are those of positions.json.
C6_MemoryEqualsDisk == positions = diskPositions

\* C7: a remove_position that raises leaves the ledger, the daily risk
\* state (in memory and in daily_pnl.json) and the trade history as they
\* were before the call.
C7_FailedRemoveChangesNothing ==
    [][(ev'.op = "remove" /\ ev'.raised) => UNCHANGED pmVars]_vars

\* The closes the trade history dates on the current day.
TodaysCloses ==
    {i \in DOMAIN tradeLog : tradeLog[i].exit_time.day = clock.day}

\* C9: the daily risk state resets at the reset hour of each day, in a
\* process that keeps running too: after a close at or after the reset hour
\* of a day the counters hold no close of an earlier day.
C9_CountersHoldTodaysClosesOnly ==
    (ev.op = "remove" /\ ev.priced /\ clock.hour >= reset_hour_utc)
        => daily_pnl.trades_count <= Cardinality(TodaysCloses)

\* ============================================ claims on place_limit_buy
Returned == buy.pc = "done"
Submitted == exOrder.status # "NONE"

\* C1: place_limit_buy returns None or a result whose quantity is above 0.
C1_ResultHasQuantity ==
    (Returned /\ buy.result # NoneResult) => buy.result.quantity > 0

\* C2: when place_limit_buy has returned None after submitting its order,
\* the order is no longer open on the exchange, so that it cannot fill.
C2_NoneMeansOrderClosed ==
    (Returned /\ Submitted /\ buy.result = NoneResult)
        => exOrder.status \notin OpenStatuses

\* ============================================= the trailing stop on its own
\* update_trailing_stop called again and again on one open position, long or
\* short, at prices above and below the entry, with and without an ATR
\* value, by a manager with or without a logger, each save free to fail;
\* should_close_position asked in between.  Two positions are drawn: the
\* ledger specifications' entry at 100.0 with the default 2.5% stop, and an
\* entry at 50,000.0 with a 2% stop.
MaxUpdates == 3     \* update_trailing_stop calls in one behaviour

TrailSymbol == "BTCUSDT"
ScenarioEntry == 50000 * 10     \* 50,000.0
ScenarioPercent == 2 * 100      \* 2%

TrailCases ==
    {[entry_price |-> EntryPrice, initial_stop_percent |-> initial_percent],
     [entry_price |-> ScenarioEntry, initial_stop_percent |-> ScenarioPercent]}

\* The prices a position of the given entry price is updated and asked at.
CasePrices(entry_price) ==
    IF entry_price = ScenarioEntry THEN {505000, 510000, 520000}
    ELSE {960, 1040, 1080}

\* ATR values: none, 0 (falsy, so the percentage is used) and 1.0
TrailAtr == {None, 0, 10}

TrailEvent(op, logger, calls, raised, asked) ==
    [op |-> op, logger |-> logger, calls |-> calls, raised |-> raised,
     asked |-> asked]

InitTrail ==
    /\ saving = SaveIdle
    /\ config = DefaultConfig
    /\ \E c \in TrailCases, side \in {"BUY", "SELL"}, logger \in BOOLEAN :
         /\ positions = [s \in {TrailSymbol} |->
                PositionData(c.entry_price, EntryQty, side, 7, c.initial_stop_percent)]
         /\ ev = TrailEvent("start", logger, <<>>, FALSE, <<>>)
    /\ diskPositions = positions
    /\ clock = InitClock
    /\ daily_pnl = FreshDaily(clock)
    /\ dailyFile = <<daily_pnl>>
    /\ tradeLog = <<>>
    /\ exFree = [s \in Symbols |-> 0]
    /\ exLocked = [s \in Symbols |-> 0]
    /\ exOrder = NoOrder
    /\ buy = BuyIdle

TrailUpdate ==
    /\ Len(ev.calls) < MaxUpdates
    /\ \E current_price \in CasePrices(positions[TrailSymbol].entry_price),
          atr_value \in TrailAtr, writeOk \in BOOLEAN :
         LET r == update_trailing_stop(PM, TrailSymbol, current_price, atr_value,
                                       ev.logger, writeOk)
             call == [current_price |-> current_price, atr_value |-> atr_value,
                      old_stop |-> positions[TrailSymbol].trailing_stop]
         IN  /\ SetPM(r)
             /\ ev' = TrailEvent("trail", ev.logger, Append(ev.calls, call),
                                 r.raised, <<>>)
    /\ UNCHANGED <<config, saving, clock, exVars, buy>>

TrailAsk ==
    /\ \E symbol \in Symbols,
          current_price \in CasePrices(positions[TrailSymbol].entry_price) :
         ev' = TrailEvent("ask", ev.logger, ev.calls, FALSE,
                          <<current_price,
                            should_close_position(PM, symbol, current_price),
                            symbol>>)
    /\ UNCHANGED <<config, saving, pmVars, clock, exVars, buy>>

NextTrail == TrailUpdate \/ TrailAsk

SpecTrail == InitTrail /\ [][NextTrail]_vars

ScenarioCalls == <<510000, 520000, 505000>>
ScenarioStops == <<502350, 512200, 512200>>

InScenario ==
    /\ ev.op \in {"trail", "ask"}
    /\ positions[TrailSymbol].entry_price = ScenarioEntry
    /\ positions[TrailSymbol].side = "BUY"
    /\ Len(ev.calls) >= 1
    /\ \A i \in 1..Len(ev.calls) :
         /\ ev.calls[i].current_price = ScenarioCalls[i]
         /\ ev.calls[i].atr_value = None

C12_TrailingScenario ==
    InScenario =>
      /\ positions[TrailSymbol].trailing_stop = ScenarioStops[Len(ev.calls)]
      /\ (ev.op = "ask" /\ Len(ev.calls) = 3 /\ ev.asked[1] = 510000
            /\ ev.asked[3] = TrailSymbol)
            => ev.asked[2] = <<TRUE, "TRAILING_STOP">>

\* ==================================================== the entry gate
\* A manager built from one of several configurations opens positions,
\* closes them at +3% or -3%, and is asked is_in_protection_mode (main.py
\* lines 99 and 178) and can_open_new_position (main.py line 191) in every
\* state this produces.
GateConfigs ==
    [max_positions : {1, max_positions},
     protection_mode_behavior : {"stop_new_entries", "disabled"}]

\* closes at 103.0 and at 97.0: +3% and -3% of the entry at 100.0
GatePrices == {1030, 970}

GateEvent(op, symbol, result) == [op |-> op, symbol |-> symbol, result |-> result]

InitGate ==
    /\ saving = SaveIdle
    /\ config \in GateConfigs
    /\ positions = EmptyDict
    /\ diskPositions = EmptyDict
    /\ clock = InitClock
    /\ daily_pnl = FreshDaily(clock)
    /\ dailyFile = <<daily_pnl>>
    /\ tradeLog = <<>>
    /\ exFree = [s \in Symbols |-> 0]
    /\ exLocked = [s \in Symbols |-> 0]
    /\ ev = [op |-> "init"]
    /\ exOrder = NoOrder
    /\ buy = BuyIdle

GateClose(symbol) == LedgerRemoveWith(symbol, GatePrices, MainRemoveIO)

GateProtection ==
    /\ ev' = GateEvent("is_in_protection_mode", "", is_in_protection_mode(PM))
    /\ UNCHANGED <<config, saving, pmVars, clock, exVars, buy>>

GateAsk(symbol) ==
    /\ ev' = GateEvent("can_open_new_position", symbol, can_open_new_position(PM, symbol))
    /\ UNCHANGED <<config, saving, pmVars, clock, exVars, buy>>

\* The methods class OrderManager defines.
OrderManagerMethods ==
    {"_get_trades_for_order_with_retry", "_calculate_avg_price_from_trades",
     "get_lot_size_filter", "get_price_filter", "round_step_size", "round_price",
     "calculate_quantity", "place_limit_buy", "close_position"}

EntrySignals == {"BUY", "SELL", "HOLD"}

\* One pass of the entry loop of main.py (lines 177-275) over one scanned
\* pair.  dataOk says whether price, klines and indicators were all obtained.
\* A BUY signal leads to the call order_mgr.place_market_buy(...): the
\* attribute lookup raises AttributeError, the except clause of line 273
\* logs it and the loop goes on to the next pair, so place_limit_buy is not
\* called, no order is submitted and add_position (lines 245-251) is not
\* reached.
EntryAttempt(symbol) ==
    /\ ~is_in_protection_mode(PM)
    /\ ~has_hit_daily_loss_limit(PM)
    /\ \E dataOk \in BOOLEAN, signal \in EntrySignals :
         LET can_open == can_open_new_position(PM, symbol)
             defined == "place_market_buy" \in OrderManagerMethods
             path == IF symbol \in DOMAIN positions THEN "has_position"
                     ELSE IF ~can_open[1] THEN "cannot_open"
                     ELSE IF ~dataOk THEN "no_data"
                     ELSE IF signal = "HOLD" THEN "no_signal"
                     ELSE IF signal = "SELL" THEN "sell_skipped"
                     ELSE IF ~defined THEN "error_processing"
                     ELSE "ordered"
         IN  /\ path # "ordered"
             /\ ev' = [op |-> "entry", symbol |-> symbol, path |-> path,
                       can_open |-> can_open[1],
                       signal |-> IF dataOk THEN signal ELSE "HOLD",
                       place_limit_buy_called |-> FALSE,
                       add_position_called |-> FALSE]
    /\ UNCHANGED <<config, saving, pmVars, clock, exVars, buy>>

NextGate ==
    \/ \E symbol \in Symbols :
         LedgerAdd(symbol) \/ GateClose(symbol) \/ GateAsk(symbol) \/ EntryAttempt(symbol)
    \/ GateProtection

SpecGate == InitGate /\ [][NextGate]_vars

\* ------------------------------------------------------------------ C13
\* C13: can_open_new_position(symbol) returns false exactly when a position
\* exists for the symbol, or the number of open positions is at or above the
\* configured maximum, or protection mode is active, or the daily loss limit
\* is hit; in every other state it returns (True, 'OK').
GateBlocked ==
    \/ ev.symbol \in DOMAIN positions
    \/ Cardinality(DOMAIN positions) >= config.max_positions
    \/ is_in_protection_mode(PM)
    \/ daily_pnl.total_pnl <= -daily_loss_limit_percent

C13_CanOpenIffNothingBlocks ==
    ev.op = "can_open_new_position" =>
      /\ ev.result[1] = FALSE <=> GateBlocked
      /\ ~GateBlocked => ev.result = <<TRUE, "OK">>

\* The count is at the maximum, the symbol itself has no position, and
\* neither risk gate is active: the count alone refuses the entry.
C13_Witness ==
    /\ ev.op = "can_open_new_position"
    /\ ev.symbol \notin DOMAIN positions
    /\ Cardinality(DOMAIN positions) = config.max_positions
    /\ daily_pnl.trades_count > 0
    /\ ~is_in_protection_mode(PM)
    /\ daily_pnl.total_pnl > -daily_loss_limit_percent
    /\ ev.result[1] = FALSE

\* ------------------------------------------------------------------ C14
\* C14: with profit protection enabled at the 3% threshold, once the daily
\* realized P&L has reached +3% can_open_new_position returns false with the
\* protection-mode reason for every symbol, whatever the number of open
\* positions, also at the maximum and for a symbol that has a position.
C14_ProtectionReasonForEverySymbol ==
    ( /\ ev.op = "can_open_new_position"
      /\ config.protection_mode_behavior = "stop_new_entries"
      /\ daily_pnl.total_pnl >= daily_profit_protection_percent )
    => ev.result = <<FALSE, "Profit protection mode active">>

C16_BuySignalInvokesOrder ==
    ( /\ ev.op = "entry"
      /\ ev.symbol \notin DOMAIN positions
      /\ ev.can_open
      /\ ev.signal = "BUY" )
    => ev.place_limit_buy_called

\* ------------------------------------------------------------------ C17
\* C17: when a polled status is CANCELED, REJECTED or EXPIRED with
\* executedQty 0, the re-read status also has executedQty 0, and the trade
\* history, on its first attempt or only on a later one, holds trades of the
\* order, place_limit_buy returns a result (not None) whose quantity is the
\* sum of the trades' quantities and whose price is their volume-weighted
\* average.
DeadWithTrades ==
    /\ ev.op = "buy" /\ ev.step = "poll_dead"
    /\ ev.st.executedQty = 0
    /\ ev.retry # NoResponse /\ ev.retry.executedQty = 0
    /\ \E i \in 1..max_retries : ev.attempts[i] # <<>>

C17_DeadOrderReconciledFromTrades ==
    DeadWithTrades =>
      LET i == CHOOSE k \in 1..max_retries : ev.attempts[k] # <<>>
          trades == ev.attempts[i]
      IN  /\ Returned
          /\ buy.result = BuyResult(SumCost(trades) \div SumQty(trades),
                                    SumQty(trades), buy.order_id)

\* The first attempt finds nothing, a later one finds two trades at different
\* prices, and the result carries their average, below the limit price.
C17_Witness ==
    /\ DeadWithTrades
    /\ ev.attempts[1] = <<>>
    /\ Len(ev.attempts[max_retries]) = 2
    /\ buy.result.kind = "result"
    /\ buy.result.price < buy.limit_price

\* ============================================ close_position on its own
\* close_position called cycle after cycle for one ledger entry whose
\* balance on the exchange is free, partly locked by a resting order, dust,
\* or gone, while resting orders placed elsewhere lock more of it.
CloseSymbol == "BTCUSDT"

\* ExStates, and two more: locked dust, and a lot step locked next to the
\* whole quantity.
CloseExStates ==
    ExStates \cup {[free |-> 0, locked |-> 500], [free |-> 2000, locked |-> 1000]}

InitClose ==
    /\ saving = SaveIdle
    /\ config = DefaultConfig
    /\ positions = [s \in {CloseSymbol} |-> StoredPosition(FALSE)]
    /\ diskPositions = positions
    /\ clock = InitClock
    /\ daily_pnl = FreshDaily(clock)
    /\ dailyFile = <<daily_pnl>>
    /\ tradeLog = <<>>
    /\ \E ex \in CloseExStates :
         /\ exFree = [s \in Symbols |-> IF s = CloseSymbol THEN ex.free ELSE 0]
         /\ exLocked = [s \in Symbols |-> IF s = CloseSymbol THEN ex.locked ELSE 0]
    /\ ev = [op |-> "init"]
    /\ exOrder = NoOrder
    /\ buy = BuyIdle

\* order_mgr.close_position(symbol, position['quantity']), main.py lines 144
\* and 162.
CloseCall ==
    /\ \E o \in close_position(Ex(CloseSymbol), positions[CloseSymbol].quantity) :
         /\ SetEx(CloseSymbol, o.ex)
         /\ ev' = [f \in ((DOMAIN o) \ {"ex"}) \cup {"op"} |->
                      IF f = "op" THEN "close_position" ELSE o[f]]
    /\ UNCHANGED <<config, saving, pmVars, clock, buy>>

\* A resting order placed outside the bot locks one lot step of the free
\* balance.
ExchangeLock ==
    /\ exFree[CloseSymbol] >= LotSize.stepSize
    /\ exFree' = [exFree EXCEPT ![CloseSymbol] = @ - LotSize.stepSize]
    /\ exLocked' = [exLocked EXCEPT ![CloseSymbol] = @ + LotSize.stepSize]
    /\ UNCHANGED <<config, saving, pmVars, clock, exOrder, ev, buy>>

NextClose == CloseCall \/ ExchangeLock

SpecClose == InitClose /\ [][NextClose]_vars

Closed == ev.op = "close_position"
IsRead(c) == c.call = "get_asset_total_balance"
IsSell(c) == c.call = "create_market_sell_order"

\* The locked balance of the last balance read before position i of a trace,
\* None when there is no read before it.
LockedBefore(trace, i) ==
    LET reads == {j \in 1..(i - 1) : IsRead(trace[j])}
    IN  IF reads = {} THEN None
        ELSE trace[CHOOSE j \in reads : \A k \in reads : k <= j].locked

\* ------------------------------------------------------------------ C18
\* C18: close_position submits a market sell only when the locked balance it
\* read last is 0.  When the first read (past the phantom check) shows a
\* locked balance, it cancels all open orders and reads the balance again,
\* and when that read still shows a locked balance it returns None without
\* having submitted a sell.
C18_SellsOnlyWhenUnlocked ==
    Closed =>
      /\ \A i \in 1..Len(ev.trace) :
           IsSell(ev.trace[i]) => LockedBefore(ev.trace, i) = 0
      /\ (ev.trace[1].locked > 0 /\ ev.ret # "PHANTOM_POSITION") =>
           /\ Len(ev.trace) >= 3
           /\ ev.trace[2] = CancelCall
           /\ IsRead(ev.trace[3])
           /\ ev.trace[3].locked > 0 =>
                (ev.ret = "None" /\ ev.sells = 0 /\ Len(ev.trace) = 3)

\* Both ways: a call found the balance locked, cancelled, read it free and
\* sold; another found it still locked and returned None.
C18_Witness ==
    /\ Closed
    /\ Len(ev.trace) >= 4
    /\ ev.trace[1].locked > 0
    /\ ev.trace[3].locked = 0
    /\ IsSell(ev.trace[4])
    /\ ev.ret = "PRICE"

\* ------------------------------------------------------------------ C19
\* C19: when the exchange rejects the market sell of close_position with an
\* insufficient-balance error, close_position goes once through cancelling
\* all open orders, reading the balance again and retrying the sell before
\* it gives up: it does not return None without having started that cycle,
\* and it submits at most one retry.
RejectedInsufficient ==
    /\ Closed
    /\ \E i \in 1..Len(ev.trace) :
         /\ IsSell(ev.trace[i])
         /\ ev.trace[i].answer \in {"api_insufficient", "exc_insufficient"}
         /\ \A j \in 1..(i - 1) : ~IsSell(ev.trace[j])

C19_InsufficientBalanceRetriedOnce ==
    RejectedInsufficient =>
      LET first == CHOOSE i \in 1..Len(ev.trace) : IsSell(ev.trace[i])
          after == {j \in (first + 1)..Len(ev.trace) : TRUE}
      IN  /\ Cardinality({j \in after : ev.trace[j] = CancelCall}) = 1
          /\ Cardinality({j \in after : IsRead(ev.trace[j])}) = 1
          /\ Cardinality({j \in after : IsSell(ev.trace[j])}) <= 1

\* ============================================ save_positions step by step
\* The ledger is changed in memory and save_positions is called; the call
\* goes through its steps one at a time, each free to fail, and the process
\* can crash in the middle of any of them and be started again.
\* saving holds the call: where it is, the ledger positions.json held when
\* it began (old), the ledger it is to save (new), and the contents of the
\* backup and the temp file.
SaveSymbol == "BTCUSDT"

\* A file that does not exist.
NoFile == [s \in {"<no file>"} |-> 0]

\* The ledger after one of the operations that save it: an entry added, or
\* its trailing stop set, or the entry removed; restores says whether the
\* operation puts self.positions back when the save raises (add_position and
\* remove_position do, update_trailing_stop does not).
ChangedLedgers(ledger) ==
    IF SaveSymbol \in DOMAIN ledger
    THEN {[ledger |-> DictDel(ledger, SaveSymbol), restores |-> TRUE]}
         \cup (IF ledger[SaveSymbol].trailing_stop = None
               THEN {[ledger |-> DictPut(ledger, SaveSymbol, StoredPosition(TRUE)),
                      restores |-> FALSE]}
               ELSE {})
    ELSE {[ledger |-> DictPut(ledger, SaveSymbol, StoredPosition(FALSE)),
           restores |-> TRUE]}

\* save_positions raised: self.positions as the caller leaves it.
AfterRaise == IF saving.restores THEN saving.before ELSE positions

InitSave ==
    /\ saving = SaveIdle
    /\ config = DefaultConfig
    /\ positions = EmptyDict
    /\ diskPositions = EmptyDict
    /\ clock = InitClock
    /\ daily_pnl = FreshDaily(clock)
    /\ dailyFile = <<daily_pnl>>
    /\ tradeLog = <<>>
    /\ exFree = [s \in Symbols |-> 0]
    /\ exLocked = [s \in Symbols |-> 0]
    /\ ev = [op |-> "init"]
    /\ exOrder = NoOrder
    /\ buy = BuyIdle

\* The caller changes self.positions and enters save_positions.
SaveBegin ==
    /\ saving.pc \in {"idle", "done", "failed", "restarted"}
    /\ \E change \in ChangedLedgers(positions) :
         /\ positions' = change.ledger
         /\ saving' = [pc |-> "backup", old |-> diskPositions, new |-> change.ledger,
                       before |-> positions, restores |-> change.restores,
                       bak |-> IF saving.pc = "idle" THEN NoFile ELSE saving.bak,
                       temp |-> NoFile, crashed |-> "no"]
    /\ ev' = [op |-> "save", step |-> "begin"]
    /\ UNCHANGED <<config, diskPositions, daily_pnl, dailyFile, tradeLog, clock, exVars, buy>>

\* Lines 47-55: positions.json is copied to positions.json.bak; a failure is
\* passed over.
SaveBackup ==
    /\ saving.pc = "backup"
    /\ \E copyOk \in BOOLEAN :
         saving' = [saving EXCEPT !.pc = "temp",
                                  !.bak = IF copyOk THEN diskPositions ELSE @]
    /\ ev' = [op |-> "save", step |-> "backup"]
    /\ UNCHANGED <<config, pmVars, clock, exVars, buy>>

\* Lines 58-64: mkstemp, json.dump, flush, fsync.  On a failure the temp
\* file is removed and the call raises.
SaveTemp ==
    /\ saving.pc = "temp"
    /\ \E writeOk \in BOOLEAN :
         IF writeOk
         THEN /\ saving' = [saving EXCEPT !.pc = "verify", !.temp = saving.new]
              /\ positions' = positions
         ELSE /\ saving' = [saving EXCEPT !.pc = "failed", !.temp = NoFile]
              /\ positions' = AfterRaise
    /\ ev' = [op |-> "save", step |-> "temp"]
    /\ UNCHANGED <<config, diskPositions, daily_pnl, dailyFile, tradeLog, clock, exVars, buy>>

\* Lines 66-70: the temp file is read back and compared with self.positions.
SaveVerify ==
    /\ saving.pc = "verify"
    /\ \E readOk \in BOOLEAN :
         IF readOk /\ saving.temp = positions
         THEN /\ saving' = [saving EXCEPT !.pc = "replace"]
              /\ positions' = positions
         ELSE /\ saving' = [saving EXCEPT !.pc = "failed", !.temp = NoFile]
              /\ positions' = AfterRaise
    /\ ev' = [op |-> "save", step |-> "verify"]
    /\ UNCHANGED <<config, diskPositions, daily_pnl, dailyFile, tradeLog, clock, exVars, buy>>

\* Line 73: os.replace(temp_path, self.positions_file), both in the working
\* directory.
SaveReplace ==
    /\ saving.pc = "replace"
    /\ \E replaceOk \in BOOLEAN :
         IF replaceOk
         THEN /\ diskPositions' = saving.temp
              /\ saving' = [saving EXCEPT !.pc = "done", !.temp = NoFile]
              /\ positions' = positions
         ELSE /\ diskPositions' = diskPositions
              /\ saving' = [saving EXCEPT !.pc = "failed", !.temp = NoFile]
              /\ positions' = AfterRaise
    /\ ev' = [op |-> "save", step |-> "replace"]
    /\ UNCHANGED <<config, daily_pnl, dailyFile, tradeLog, clock, exVars, buy>>

\* What a file being written holds when the process dies in the middle of
\* the write: nothing of it yet, a part, or all of it.
InterruptedWrite(before, content) == {before, Truncated, content}

\* os.replace interrupted: the rename is atomic, the name refers to the old
\* file or to the new one.
InterruptedReplaceMutant(old, temp) == InterruptedWrite(old, temp)

InterruptedReplace(old, temp) == {old, temp}

\* The process dies in the middle of a step of save_positions and is started
\* again: the constructor calls load_positions (line 24).
CrashAndRestart ==
    /\ saving.pc \in {"backup", "temp", "verify", "replace"}
    /\ \E bak \in (IF saving.pc = "backup"
                   THEN InterruptedWrite(saving.bak, diskPositions) ELSE {saving.bak}),
          temp \in (IF saving.pc = "temp"
                    THEN InterruptedWrite(NoFile, saving.new) ELSE {saving.temp}),
          disk \in (IF saving.pc = "replace"
                    THEN InterruptedReplace(diskPositions, saving.temp)
                    ELSE {diskPositions}) :
         /\ diskPositions' = disk
         /\ positions' = load_positions([PM EXCEPT !.diskPositions = disk], TRUE).positions
         /\ saving' = [saving EXCEPT !.pc = "restarted", !.bak = bak, !.temp = temp,
                                     !.crashed = saving.pc]
    /\ ev' = [op |-> "save", step |-> "crash"]
    /\ UNCHANGED <<config, daily_pnl, dailyFile, tradeLog, clock, exVars, buy>>

NextSave ==
    \/ SaveBegin
    \/ SaveBackup
    \/ SaveTemp
    \/ SaveVerify
    \/ SaveReplace
    \/ CrashAndRestart

SpecSave == InitSave /\ [][NextSave]_vars

\* ------------------------------------------------------------------ C20
\* C20: when the process crashes at any step of save_positions (backup copy,
\* temp-file write, verification, rename), positions.json holds the complete
\* ledger it held before the call or the complete ledger being saved, never
\* a part of one, and load_positions after the restart yields that ledger.
C20_CrashLeavesOldOrNewLedger ==
    saving.pc = "restarted" =>
      /\ diskPositions \in {saving.old, saving.new}
      /\ positions = diskPositions

\* The crash came during the rename, the ledger being saved differs from the
\* one on disk, and the restarted process has the new one.
C20_Witness ==
    /\ saving.pc = "restarted"
    /\ saving.crashed = "replace"
    /\ saving.old # saving.new
    /\ saving.new # EmptyDict
    /\ positions = saving.new

\* ------------------------------------------------------------------ C21
\* C21: an add_position whose durable write fails raises and leaves the
\* ledger in memory exactly as it was before the call, also when the symbol
\* had an entry before the call; an add_position that returns has the new
\* position in positions.json.
C21_FailedAddChangesNothing ==
    [][ev'.op = "add" =>
         IF ev'.raised
         THEN positions' = positions
         ELSE /\ ev'.symbol \in DOMAIN diskPositions'
              /\ diskPositions'[ev'.symbol] = positions'[ev'.symbol]]_vars

\* ------------------------------------------------------------------ C22
\* C22: when the exchange does not return the trading rules of the symbol
\* (no symbol info, or no LOT_SIZE filter in it), close_position submits no
\* order for it.  (place_limit_buy returns None before create_limit_buy_order
\* in that case: the first branch of BuyStart.)
C22_NoRulesNoOrder ==
    (ev.op = "close_position" /\ ~ev.rulesOk) => ev.sells = 0

\* ------------------------------------------------------------------ C23
\* C23: should_close_position answers (True, 'STOP_LOSS') whenever the price
\* has breached the static stop-loss (at or below it for a long position, at
\* or above it for a short one), otherwise (True, 'TRAILING_STOP') whenever
\* the trailing stop is set and breached, otherwise (False, None); a
\* stop-loss breach wins over a trailing-stop breach, and a symbol without a
\* position gets (False, None).
Breached(position, level, price) ==
    IF position.side = "BUY" THEN price <= level ELSE price >= level

C23_StopLossBeforeTrailingStop ==
    ev.op = "ask" =>
      LET price == ev.asked[1]
          answer == ev.asked[2]
          symbol == ev.asked[3]
      IN  IF symbol \notin DOMAIN positions
          THEN answer = <<FALSE, "None">>
          ELSE LET position == positions[symbol]
               IN  answer =
                     IF Breached(position, position.stop_loss, price)
                     THEN <<TRUE, "STOP_LOSS">>
                     ELSE IF /\ position.trailing_stop # None
                             /\ Breached(position, position.trailing_stop, price)
                          THEN <<TRUE, "TRAILING_STOP">>
                          ELSE <<FALSE, "None">>

\* Both stops are breached at once and the answer is the stop-loss.
C23_Witness ==
    /\ ev.op = "ask"
    /\ ev.asked[3] \in DOMAIN positions
    /\ LET position == positions[ev.asked[3]]
       IN  /\ position.trailing_stop # None
           /\ Breached(position, position.trailing_stop, ev.asked[1])
           /\ Breached(position, position.stop_loss, ev.asked[1])
    /\ ev.asked[2] = <<TRUE, "STOP_LOSS">>

\* ================================================= the trading cycle
\* The two steps of one iteration of the loop of main.py, symbol by symbol:
\* step 1 manages the open positions (lines 118-175), step 2 looks for
\* entries (lines 177-275).  The process starts with a ledger within the
\* configured limit and with the Daily Risk State an earlier run of the day
\* left after one close, at +3%, at -3% or at the entry price.
DayAfterClose(close_price) ==
    LET before == [positions |-> [s \in {"ETHUSDT"} |-> StoredPosition(FALSE)],
                   diskPositions |-> [s \in {"ETHUSDT"} |-> StoredPosition(FALSE)],
                   daily_pnl |-> FreshDaily(InitClock), dailyFile |-> <<>>,
                   tradeLog |-> <<>>, raised |-> FALSE,
                   max_positions |-> max_positions,
                   protection_mode_behavior |-> "stop_new_entries"]
    IN  remove_position(before, "ETHUSDT", close_price, "STOP_LOSS",
                        [posOk |-> TRUE, dailyOk |-> TRUE, logOk |-> TRUE])

\* one position allowed and protection enabled, or five and disabled
CycleConfigs ==
    {[max_positions |-> 1, protection_mode_behavior |-> "stop_new_entries"],
     [max_positions |-> max_positions, protection_mode_behavior |-> "disabled"]}

CycleExStates == {[free |-> 2000, locked |-> 0], [free |-> 1000, locked |-> 1000]}

InitCycle ==
    /\ saving = SaveIdle
    /\ config \in CycleConfigs
    /\ diskPositions \in InitialLedgers
    /\ Cardinality(DOMAIN diskPositions) <= config.max_positions
    /\ positions = diskPositions
    /\ clock = InitClock
    /\ \E close_price \in GatePrices \cup {EntryPrice} :
         LET day == DayAfterClose(close_price)
         IN  /\ daily_pnl = day.daily_pnl
             /\ dailyFile = day.dailyFile
             /\ tradeLog = day.tradeLog
    /\ \E ex \in [Symbols -> CycleExStates \cup {NoBalance}] :
         /\ \A s \in Symbols : ex[s] = NoBalance <=> s \notin DOMAIN diskPositions
         /\ exFree = [s \in Symbols |-> ex[s].free]
         /\ exLocked = [s \in Symbols |-> ex[s].locked]
    /\ ev = [op |-> "init"]
    /\ exOrder = NoOrder
    /\ buy = BuyIdle

CycleManage(symbol) == ManageUpTo(symbol, MaxCycleTrades)

NextCycle == \E symbol \in Symbols : CycleManage(symbol) \/ EntryAttempt(symbol)

SpecCycle == InitCycle /\ [][NextCycle]_vars

\* ------------------------------------------------------------------ C24
\* C24: while protection mode is active or the daily loss limit is hit, the
\* loop evaluates no symbol for entry, so that it submits no entry order;
\* and the gate closes nothing: a position leaves the ledger only in step 1,
\* on a stop (or exit signal) of its own.
RiskGateClosed ==
    \/ /\ config.protection_mode_behavior # "disabled"
       /\ daily_pnl.total_pnl >= daily_profit_protection_percent
    \/ daily_pnl.total_pnl <= -daily_loss_limit_percent

C24_GateBlocksEntriesOnly ==
    [][RiskGateClosed =>
         /\ ev'.op # "entry"
         /\ positions' # positions =>
              /\ ev'.op = "manage"
              /\ ev'.path = "close"
              /\ should_close_position(PM, ev'.symbol, ev'.current_price)[1]
              /\ positions' = DictDel(positions, ev'.symbol)]_vars

\* The day began with a close at -3%, which hit the daily loss limit; a
\* position is still open, and step 1 has just closed another one on its
\* stop.
C24_Witness ==
    /\ daily_pnl.total_pnl <= -daily_loss_limit_percent
    /\ daily_pnl.trades_count = 2
    /\ tradeLog # <<>>
    /\ tradeLog[1] = DayAfterClose(970).tradeLog[1]
    /\ positions # EmptyDict
    /\ ev.op = "manage"
    /\ ev.removeCalled
    /\ ev.symbol \notin DOMAIN positions

\* ------------------------------------------------------------------ C26
\* C26: in the loop started from a ledger within the limit, the number of
\* open positions never exceeds max_positions; the entry pass goes no
\* further than the checks of lines 187-194, and so places no order, for a
\* symbol that has a ledger entry or when the count is at the maximum; and
\* no step replaces the entry a symbol has.
C26_OnePerSymbolWithinLimit ==
    [][/\ Cardinality(DOMAIN positions') <= config.max_positions
       /\ \A s \in DOMAIN positions \cap DOMAIN positions' :
            /\ positions'[s].order_id = positions[s].order_id
            /\ positions'[s].entry_price = positions[s].entry_price
            /\ positions'[s].quantity = positions[s].quantity
       /\ ( /\ ev'.op = "entry"
            /\ \/ ev'.symbol \in DOMAIN positions
               \/ Cardinality(DOMAIN positions) >= config.max_positions )
          => /\ ev'.path \in {"has_position", "cannot_open"}
             /\ ~ev'.place_limit_buy_called
             /\ ~ev'.add_position_called]_vars

\* The count is at the maximum, the risk gates are open, and the entry pass
\* has just stopped at can_open_new_position for a symbol without entry.
C26_Witness ==
    /\ ev.op = "entry"
    /\ ev.symbol \notin DOMAIN positions
    /\ Cardinality(DOMAIN positions) = config.max_positions
    /\ ~RiskGateClosed
    /\ ev.path = "cannot_open"

EntryRecord ==
    /\ buy.pc = "done"
    /\ IF buy.result.kind = "result" /\ buy.result.quantity > 0
       THEN \E writeOk \in BOOLEAN :
              LET r == add_position(PM, BuySymbol, buy.result.price, buy.result.quantity,
                                    "BUY", buy.result.order_id, writeOk)
              IN  /\ SetPM(r)
                  /\ ev' = [op |-> "entry_record", add_position_called |-> TRUE,
                            raised |-> r.raised]
       ELSE /\ UNCHANGED pmVars
            /\ ev' = [op |-> "entry_record", add_position_called |-> FALSE,
                      raised |-> FALSE]
    /\ buy' = [buy EXCEPT !.pc = "recorded"]
    /\ UNCHANGED <<config, saving, clock, exVars>>

\* The process dies and is started again: the constructor of PositionManager
\* (lines 24-25) loads positions.json and daily_pnl.json, and nothing is
\* asked of the exchange about earlier orders.
EntryCrash ==
    /\ buy.pc # "restarted"
    /\ \E posReadOk \in BOOLEAN :
         SetPM(load_daily_pnl(load_positions(PM, posReadOk), clock, TRUE, TRUE))
    /\ buy' = [BuyIdle EXCEPT !.pc = "restarted"]
    /\ ev' = [op |-> "entry_crash", at |-> buy.pc]
    /\ UNCHANGED <<config, saving, clock, exVars>>

NextEntry ==
    \/ BuyStart
    \/ BuyPoll
    \/ BuyCancel
    \/ BuyFinal
    \/ ExchangeFill
    \/ ExchangeEnd
    \/ EntryRecord
    \/ EntryCrash

SpecEntry == InitLedger /\ [][NextEntry]_vars

\* ------------------------------------------------------------------ C25
\* C25: after a crash at any point of the cycle and a restart, every buy
\* order that executed with a quantity above zero has a ledger entry, and
\* every ledger entry corresponds to an executed buy.
C25_ExecutedBuysAreInLedgerAfterRestart ==
    buy.pc = "restarted" =>
      (exOrder.executed > 0 <=> BuySymbol \in DOMAIN positions)

\* ================================================ positions.json as text
\* json.dump and json.load on the ledger: a dict of symbol to a dict of
\* field to value, the values being floats, an int or None and strings.  A
\* JSON value is its text, a sequence of characters; a string is kept as one
\* element between its quotes.
DigitChars == <<"0", "1", "2", "3", "4", "5", "6", "7", "8", "9">>

DigitValue(c) == CHOOSE d \in 0..9 : DigitChars[d + 1] = c

\* the decimal digits of a natural number
RECURSIVE IntText(_)
IntText(n) ==
    IF n < 10 THEN <<DigitChars[n + 1]>>
    ELSE Append(IntText(n \div 10), DigitChars[(n % 10) + 1])

RECURSIVE IntValue(_)
IntValue(text) ==
    IF text = <<>> THEN 0
    ELSE 10 * IntValue(SubSeq(text, 1, Len(text) - 1)) + DigitValue(text[Len(text)])

\* m written with exactly d digits
RECURSIVE Padded(_, _)
Padded(m, d) ==
    IF d = 0 THEN <<>> ELSE Append(Padded(m \div 10, d - 1), DigitChars[(m % 10) + 1])

\* float.__repr__ keeps one digit after the point and no trailing zeros
RECURSIVE StripZeros(_)
StripZeros(text) ==
    IF Len(text) > 1 /\ text[Len(text)] = "0"
    THEN StripZeros(SubSeq(text, 1, Len(text) - 1))
    ELSE text

\* The text of a number of the given count of decimal places (none: an int).
NumberText(n, digits) ==
    LET a == IF n < 0 THEN -n ELSE n
        sign == IF n < 0 THEN <<"-">> ELSE <<>>
    IN  IF digits = 0 THEN sign \o IntText(a)
        ELSE sign \o IntText(a \div Pow10(digits)) \o <<".">>
                  \o StripZeros(Padded(a % Pow10(digits), digits))

NumberValue(text, digits) ==
    LET negative == text[1] = "-"
        body == IF negative THEN Tail(text) ELSE text
        point == IF \E i \in 1..Len(body) : body[i] = "."
                 THEN CHOOSE i \in 1..Len(body) : body[i] = "."
                 ELSE Len(body) + 1
        whole == IntValue(SubSeq(body, 1, point - 1))
        frac == SubSeq(body, point + 1, Len(body))
        a == whole * Pow10(digits) + IntValue(frac) * Pow10(digits - Len(frac))
    IN  IF negative THEN -a ELSE a

\* The decimal places of the model's unit of each numeric field.
FieldDigits(field) ==
    IF field \in {"entry_price", "highest_price", "lowest_price", "stop_loss",
                  "trailing_stop"} THEN PriceDigits
    ELSE IF field = "quantity" THEN QtyDigits
    ELSE IF field = "initial_stop_percent" THEN 1 + 1
    ELSE 0

StringFields == {"side"}

\* json.dump of one value, json.load of one value
JsonDumpValue(field, value) ==
    IF field \in StringFields THEN <<"\"", value, "\"">>
    ELSE IF value = None THEN <<"n", "u", "l", "l">>
    ELSE NumberText(value, FieldDigits(field))

JsonLoadValueMutant(field, text) ==
    IF field \in StringFields THEN text[2]
    ELSE IF text = <<"n", "u", "l", "l">> THEN 0
    ELSE NumberValue(text, FieldDigits(field))

JsonLoadValue(field, text) ==
    IF field \in StringFields THEN text[2]
    ELSE IF text = <<"n", "u", "l", "l">> THEN None
    ELSE NumberValue(text, FieldDigits(field))

json_dump(ledger) ==
    [symbol \in DOMAIN ledger |->
        [field \in DOMAIN ledger[symbol] |-> JsonDumpValue(field, ledger[symbol][field])]]

json_load(document) ==
    [symbol \in DOMAIN document |->
        [field \in DOMAIN document[symbol] |-> JsonLoadValue(field, document[symbol][field])]]

\* The positions a ledger can hold: long or short, with an order id or
\* without, as add_position stored them or after update_trailing_stop set
\* the trailing stop from the percentage or from an ATR value.
RoundTripPositions ==
    UNION {
      LET fresh == PositionData(EntryPrice, EntryQty, side, order_id, initial_percent)
          pm0 == [positions |-> [s \in {"x"} |-> fresh],
                  diskPositions |-> EmptyDict, raised |-> FALSE]
          price == IF side = "BUY" THEN TrailPrice ELSE 960
      IN  {fresh} \cup
          {update_trailing_stop(pm0, "x", price, atr_value, FALSE, TRUE).positions["x"] :
             atr_value \in AtrValues}
      : side \in {"BUY", "SELL"}, order_id \in {7, None} }

InitRoundTrip ==
    /\ saving = SaveIdle
    /\ config = DefaultConfig
    /\ positions \in UNION { [S -> RoundTripPositions] : S \in SUBSET Symbols }
    /\ diskPositions = positions
    /\ clock = InitClock
    /\ daily_pnl = FreshDaily(clock)
    /\ dailyFile = <<daily_pnl>>
    /\ tradeLog = <<>>
    /\ exFree = [s \in Symbols |-> 0]
    /\ exLocked = [s \in Symbols |-> 0]
    /\ ev = [op |-> "init"]
    /\ exOrder = NoOrder
    /\ buy = BuyIdle

\* save_positions (lines 42-87) in a process whose file operations succeed
\* or fail as a whole, followed by load_positions (lines 27-40) in the next
\* start of the program.
SaveAndLoad ==
    /\ \E ioOk \in BOOLEAN :
         LET text == json_dump(positions)
             verification == json_load(text)
             saved == ioOk /\ verification = positions
             file == IF saved THEN text ELSE json_dump(diskPositions)
         IN  /\ diskPositions' = json_load(file)
             /\ positions' = json_load(file)
             /\ ev' = [op |-> "save_and_load", ioOk |-> ioOk, raised |-> ~saved,
                       text |-> text]
    /\ UNCHANGED <<config, saving, daily_pnl, dailyFile, tradeLog, clock, exVars, buy>>

\* The ledger also changes between two starts, by add_position and
\* update_trailing_stop.
NextRoundTrip ==
    \/ SaveAndLoad
    \/ \E symbol \in Symbols : LedgerAdd(symbol) \/ LedgerTrail(symbol)

SpecRoundTrip == InitRoundTrip /\ [][NextRoundTrip]_vars

\* ------------------------------------------------------------------ C28
\* C28: for any ledger of N positions, among them positions whose trailing
\* stop and highest or lowest price are null, save_positions followed by
\* load_positions gives a ledger in memory identical to the one saved.
C28_LedgerRoundTrip ==
    [][(ev'.op = "save_and_load" /\ ev'.ioOk) =>
          /\ ~ev'.raised
          /\ positions' = positions
          /\ diskPositions' = positions]_vars

\* Two positions went through the file, one of them with a null trailing
\* stop, a null lowest price and a null order id, the other with its
\* trailing stop set.
C28_Witness ==
    /\ ev.op = "save_and_load"
    /\ ~ev.raised
    /\ Cardinality(DOMAIN positions) = 2
    /\ \E s \in DOMAIN positions :
         /\ positions[s].trailing_stop = None
         /\ positions[s].lowest_price = None
         /\ positions[s].order_id = None
         /\ ev.text[s].trailing_stop = <<"n", "u", "l", "l">>
         /\ ev.text[s].entry_price = <<"1", "0", "0", ".", "0">>
         /\ ev.text[s].quantity = <<"0", ".", "0", "0", "2">>
    /\ \E s \in DOMAIN positions : positions[s].trailing_stop # None

\* ============================================ the trade-history fallback
\* _get_trades_for_order_with_retry (order_manager.py lines 9-38) attempt by
\* attempt, and _calculate_avg_price_from_trades on what it returns.  The
\* locals of the call are kept in buy.
BaseDelay == 1           \* time.sleep(1 * (attempt + 1))
OtherOrderId == 7 + 2

\* What the account's trade history can answer: the request fails, or it
\* lists nothing, a trade of another order, a trade of this order, trades of
\* both orders, or a trade of this order of quantity 0.
Trade(orderId, price, qty) == [orderId |-> orderId, price |-> price, qty |-> qty]

TradeLists ==
    {<<>>,
     <<Trade(OtherOrderId, 990, 1000)>>,
     <<Trade(BuyOrderId, 998, 1000)>>,
     <<Trade(OtherOrderId, 990, 1000), Trade(BuyOrderId, 998, 1000),
       Trade(BuyOrderId, 994, 1000)>>,
     <<Trade(BuyOrderId, 998, 0)>>}

TradeHistoryAnswers ==
    [fails : {TRUE}, trades : {<<>>}] \cup [fails : {FALSE}, trades : TradeLists]

\* Lines 16-20: with an order time the python-binance client is called
\* directly, and its exception reaches the loop; without one the wrapper's
\* get_my_trades turns a failure into an empty list (binance_client.py lines
\* 199-206).
GetMyTrades(answer, timed) ==
    [raises |-> answer.fails /\ timed, trades |-> answer.trades]

\* line 22: [t for t in trades if t.get('orderId') == order_id]
MatchingTradesMutant(trades, order_id) == trades

MatchingTrades(trades, order_id) ==
    SelectSeq(trades, LAMBDA tr : tr.orderId = order_id)

RetryStart ==
    /\ buy.pc = "idle"
    /\ \E limit_price \in {998, 1000}, timed \in BOOLEAN :
         buy' = [pc |-> "attempt", attempt |-> 0, order_id |-> BuyOrderId,
                 limit_price |-> limit_price, timed |-> timed,
                 fetched |-> <<>>, slept |-> <<>>,
                 raised |-> FALSE, result |-> <<>>, avg |-> <<None, None>>]
    /\ ev' = [op |-> "retry", step |-> "call"]
    /\ UNCHANGED <<config, saving, pmVars, clock, exVars>>

\* One turn of the loop of line 14; the turn that ends the loop also
\* returns (line 38), and the caller computes the average price.  What an
\* attempt raises is caught by the except clause of line 33 and nothing
\* outside the try statement can raise, so raised stays false.
RetryAttempt ==
    /\ buy.pc = "attempt"
    /\ buy.attempt < max_retries
    /\ \E answer \in TradeHistoryAnswers :
         LET response == GetMyTrades(answer, buy.timed)
             order_trades == IF response.raises THEN <<>>
                             ELSE MatchingTrades(response.trades, buy.order_id)
             found == order_trades # <<>>
             last == buy.attempt >= max_retries - 1
             slept == IF found \/ last THEN buy.slept
                      ELSE Append(buy.slept, BaseDelay * (buy.attempt + 1))
             returned == found \/ last
         IN  buy' = [buy EXCEPT
                       !.fetched = Append(@, response),
                       !.slept = slept,
                       !.attempt = IF found THEN @ ELSE @ + 1,
                       !.pc = IF returned THEN "returned" ELSE "attempt",
                       !.result = order_trades,
                       !.avg = IF returned
                               THEN calculate_avg_price_from_trades(order_trades,
                                                                    buy.limit_price)
                               ELSE @]
    /\ ev' = [op |-> "retry", step |-> "attempt"]
    /\ UNCHANGED <<config, saving, pmVars, clock, exVars>>

NextRetry == RetryStart \/ RetryAttempt

SpecRetry == InitLedger /\ [][NextRetry]_vars

RetryReturned == buy.pc = "returned"

\* the delays 1x .. nx of the base delay
Backoff(n) == [k \in 1..n |-> BaseDelay * k]

\* the response lists a trade of the requested order
Lists(response, order_id) ==
    /\ ~response.raises
    /\ \E i \in 1..Len(response.trades) : response.trades[i].orderId = order_id

\* The call stopped at the first attempt that listed a trade of the order,
\* and returned the trades of that order and no other.
StopsAtFirstMatch ==
    LET calls == Len(buy.fetched)
    IN  /\ \A i \in 1..(calls - 1) : ~Lists(buy.fetched[i], buy.order_id)
        /\ \A i \in 1..Len(buy.result) : buy.result[i].orderId = buy.order_id
        /\ IF Lists(buy.fetched[calls], buy.order_id)
           THEN /\ buy.result # <<>>
                /\ \A i \in 1..Len(buy.fetched[calls].trades) :
                     buy.fetched[calls].trades[i].orderId = buy.order_id
                       => \E j \in 1..Len(buy.result) :
                            buy.result[j] = buy.fetched[calls].trades[i]
           ELSE buy.result = <<>>

\* ------------------------------------------------------------------ C29
\* C29 as stated: the fallback performs up to 3 retries with the delays 1x,
\* 2x and 3x the base delay between attempts (a call that finds nothing has
\* waited all three), stops at the first attempt that lists a trade of the
\* order, and counts only trades of the requested order id.
C29_ThreeRetriesThreeDelays ==
    RetryReturned =>
      /\ StopsAtFirstMatch
      /\ buy.slept = Backoff(Len(buy.slept))
      /\ buy.result = <<>> => buy.slept = Backoff(3)

\* C29 amended: the fallback performs up to 3 attempts, with the delays 1x
\* and 2x the base delay between consecutive attempts and none after the
\* last one, stops at the first attempt that lists a trade of the order, and
\* counts only trades of the requested order id.
C29_ThreeAttemptsTwoDelays ==
    RetryReturned =>
      /\ StopsAtFirstMatch
      /\ Len(buy.fetched) <= max_retries
      /\ buy.slept = Backoff(Len(buy.fetched) - 1)
      /\ buy.result = <<>> => Len(buy.fetched) = max_retries

\* The first attempt failed, the second listed another order's trade only,
\* the third listed trades of both orders: two delays, and the two trades of
\* the order returned.
C29_Witness ==
    /\ RetryReturned
    /\ Len(buy.fetched) = 3
    /\ buy.fetched[1].raises
    /\ buy.fetched[2].trades # <<>>
    /\ Len(buy.fetched[3].trades) = 3
    /\ buy.slept = <<1, 2>>
    /\ Len(buy.result) = 2

\* ------------------------------------------------------------------ C30
\* C30: whatever the trade-history endpoint does on each attempt (nothing
\* listed, other orders' trades only, an exception every time),
\* _get_trades_for_order_with_retry raises nothing and returns a list; and
\* when no attempt listed a trade of the order, the average price computed
\* from it is the submitted limit price, with trade quantity 0.
C30_NoTradesFallsBackToLimitPrice ==
    RetryReturned =>
      /\ ~buy.raised
      /\ buy.result \in Seq({Trade(buy.order_id, tr.price, tr.qty) :
                              tr \in UNION {{l[i] : i \in 1..Len(l)} : l \in TradeLists}})
      /\ (\A i \in 1..Len(buy.fetched) : ~Lists(buy.fetched[i], buy.order_id))
           => /\ buy.result = <<>>
              /\ buy.avg = <<buy.limit_price, 0>>

\* The direct client raised on every one of the three attempts.
C30_Witness ==
    /\ RetryReturned
    /\ Len(buy.fetched) = max_retries
    /\ \A i \in 1..Len(buy.fetched) : buy.fetched[i].raises
    /\ buy.avg = <<buy.limit_price, 0>>

\* ------------------------------------------------------------------ C31
\* C31: place_limit_buy requests cancel_order only after the polling ceiling
\* was reached (30 s at one poll per 2 s: 15 polls) without a poll having
\* observed FILLED, CANCELED, REJECTED or EXPIRED; it requests it at most
\* once, follows it with exactly one re-fetch of the status, never requests
\* it after a terminal status was observed, and submits at most one limit
\* order per call.
C31_CancelOnlyAfterCeilingOnce ==
    LET c == buy.calls
    IN  /\ c.orders <= 1
        /\ c.cancels <= 1
        /\ c.cancels = 1 =>
             /\ c.polls = max_wait_time \div check_interval
             /\ c.polls * check_interval >= max_wait_time
             /\ ~c.terminal
        /\ c.terminal => c.cancels = 0 /\ buy.pc = "done"
        /\ c.refetches <= c.cancels
        /\ (c.cancels = 1 /\ buy.pc = "done") => c.refetches = 1

\* Fifteen polls saw no terminal status, the order was cancelled, the one
\* re-fetch showed a partial fill and the call returned it.
C31_Witness ==
    /\ buy.pc = "done"
    /\ buy.calls = [orders |-> 1, polls |-> 15, terminal |-> FALSE,
                    cancels |-> 1, refetches |-> 1]
    /\ buy.result.kind = "result"
    /\ exOrder.status = "CANCELED"

\* ------------------------------------------------------------------ C32
\* C32: whatever the exchange gateway does (no status, a status that never
\* becomes terminal, an empty or failing trade history, any call failing),
\* place_limit_buy returns None or a reconciled result after a bounded
\* number of gateway calls: one order, at most 15 polls, one cancellation
\* and one re-fetch (each reconciliation asking the trade history at most
\* max_retries times).
C32_PlaceLimitBuyTerminates ==
    /\ [](/\ buy.calls.orders <= 1
          /\ buy.calls.polls <= max_wait_time \div check_interval
          /\ buy.calls.cancels <= 1
          /\ buy.calls.refetches <= 1)
    /\ <>[](/\ buy.pc = "done"
            /\ buy.result.kind \in {"None", "result"})

\* The order was never seen in a terminal status and the cancellation did
\* not go through: the call has returned None with the order still open.
C32_Witness ==
    /\ buy.pc = "done"
    /\ buy.calls.polls = max_wait_time \div check_interval
    /\ buy.calls.cancels = 1
    /\ buy.result = NoneResult
    /\ exOrder.status \in OpenStatuses

\* ------------------------------------------------------------------ C33
\* The balance close_position had read last when it reached line 340: the
\* last read before its first sell, or the last read of a call without sell.
SellRead(trace) ==
    LET sells == {i \in 1..Len(trace) : IsSell(trace[i])}
        upto == IF sells = {} THEN Len(trace)
                ELSE (CHOOSE i \in sells : \A k \in sells : i <= k) - 1
        reads == {j \in 1..upto : IsRead(trace[j])}
    IN  trace[CHOOSE j \in reads : \A k \in reads : k <= j]

\* The call went past the phantom check and the locked-balance check.
ReachedQuantity ==
    /\ Closed
    /\ ~(ev.ret = "PHANTOM_POSITION" /\ ev.sells = 0)
    /\ SellRead(ev.trace).locked = 0

\* The quantity the call is to sell: the free balance when it is below 99%
\* of the expected quantity, the expected quantity otherwise.
AdjustedQuantity ==
    LET read == SellRead(ev.trace)
        expected == positions[CloseSymbol].quantity
    IN  IF read.free * 100 < expected * 99 THEN read.free ELSE expected

\* The same rounded down to the lot step.
QuantizedQuantity == AdjustedQuantity - (AdjustedQuantity % LotSize.stepSize)

\* The minimum cases of close_position with the trading rules available.
MinimumCases ==
    /\ (QuantizedQuantity < LotSize.minQty
          /\ SellRead(ev.trace).total >= LotSize.minQty)
         => (ev.ret = "None" /\ ev.sells = 0)
    /\ (QuantizedQuantity < LotSize.minQty
          /\ SellRead(ev.trace).total < LotSize.minQty)
         => (ev.ret = "BELOW_MIN_QTY" /\ ev.sells = 0)

\* C33 as stated: with the trading rules available, a quantized quantity
\* below the minimum gives None when the total balance reaches the minimum
\* and BELOW_MIN_QTY when it does not, ZERO_QUANTITY is returned exactly
\* when the adjusted quantity is <= 0, and none of the three submits a sell.
C33_ZeroQuantityWhenNotPositive ==
    (ReachedQuantity /\ ev.first.rulesOk) =>
      /\ MinimumCases
      /\ (ev.ret = "ZERO_QUANTITY") <=> (QuantizedQuantity <= 0)
      /\ ev.ret \in {"BELOW_MIN_QTY", "ZERO_QUANTITY"} => ev.sells = 0

\* C33: with the trading rules available, a quantized quantity below the
\* minimum gives None when the total balance reaches the minimum and
\* BELOW_MIN_QTY when it does not, a quantity <= 0 included, so that
\* ZERO_QUANTITY is never returned; without a minimum quantity
\* ZERO_QUANTITY is returned exactly when the adjusted quantity is <= 0.
\* None of these results submits a sell.
C33_MinimumBeforeZeroQuantity ==
    ReachedQuantity =>
      /\ ev.first.rulesOk => (MinimumCases /\ ev.ret # "ZERO_QUANTITY")
      /\ ~ev.first.rulesOk => ((ev.ret = "ZERO_QUANTITY") <=> (AdjustedQuantity <= 0))
      /\ ev.ret \in {"BELOW_MIN_QTY", "ZERO_QUANTITY"} => ev.sells = 0

\* A close with the rules available whose quantity to sell is 0: the
\* result is BELOW_MIN_QTY.
C33_Witness ==
    /\ ReachedQuantity
    /\ ev.first.rulesOk
    /\ QuantizedQuantity = 0
    /\ ev.ret = "BELOW_MIN_QTY"
    /\ ev.sells = 0

\* ------------------------------------------------------------------ C34
\* The balance read last before position i of a trace.
ReadBefore(trace, i) ==
    LET reads == {j \in 1..(i - 1) : IsRead(trace[j])}
    IN  trace[CHOOSE j \in reads : \A k \in reads : k <= j]

\* C34: the quantity of every market sell close_position submits is at most
\* the free balance it read last and at most the ledger's quantity; the
\* quantity of its first sell is the free balance rounded down to the lot
\* step when that is below 99% of the ledger's quantity, and the ledger's
\* quantity rounded down to the lot step otherwise.
C34_SellWithinFreeAndExpected ==
    Closed =>
      /\ \A i \in 1..Len(ev.trace) :
           IsSell(ev.trace[i]) =>
             /\ ev.trace[i].quantity <= ReadBefore(ev.trace, i).free
             /\ ev.trace[i].quantity <= positions[CloseSymbol].quantity
      /\ \A i \in 1..Len(ev.trace) :
           (IsSell(ev.trace[i]) /\ \A j \in 1..(i - 1) : ~IsSell(ev.trace[j]))
             => ev.trace[i].quantity = QuantizedQuantity

\* ------------------------------------------------------------------ C35
BuyStarted == ev.op = "buy" /\ ev.step = "start"

\* amount_usd / limit_price rounded down to the lot step, for the limit
\* price the call computed.
NotionalQuantity ==
    LET quantity == (ev.amount_usd * 1000) \div ev.limit_price
    IN  quantity - (quantity % LotSize.stepSize)

MaxMultiple == 12

QtySteps == {1, 10, 100, 1000, QtyUnit}
Ticks == {TickSize, 10 * TickSize}

RoundValues(step) ==
    {k * step + offset :
       k \in 0..MaxMultiple, offset \in {0, Min(1, step - 1), step \div 2, step - 1}}

RoundInputs(fn, steps) ==
    UNION {{[op |-> "input", fn |-> fn, step |-> step, value |-> value]
              : value \in RoundValues(step)} : step \in steps}

InitRound ==
    /\ saving = SaveIdle
    /\ config = DefaultConfig
    /\ positions = EmptyDict
    /\ diskPositions = EmptyDict
    /\ clock = InitClock
    /\ daily_pnl = FreshDaily(clock)
    /\ dailyFile = <<daily_pnl>>
    /\ tradeLog = <<>>
    /\ exFree = [s \in Symbols |-> 0]
    /\ exLocked = [s \in Symbols |-> 0]
    /\ exOrder = NoOrder
    /\ buy = BuyIdle
    /\ ev \in RoundInputs("round_step_size", QtySteps)
             \cup RoundInputs("round_price", Ticks)

Rounded(result) ==
    [op |-> "rounded", fn |-> ev.fn, step |-> ev.step, value |-> ev.value,
     result |-> result]

RoundStepSize ==
    /\ ev.op = "input" /\ ev.fn = "round_step_size"
    /\ ev' = Rounded(round_step_size(ev.value, ev.step))
    /\ UNCHANGED <<config, saving, pmVars, clock, exVars, buy>>

RoundPrice ==
    /\ ev.op = "input" /\ ev.fn = "round_price"
    /\ ev' = Rounded(round_price(ev.value, ev.step))
    /\ UNCHANGED <<config, saving, pmVars, clock, exVars, buy>>

NextRound == RoundStepSize \/ RoundPrice

SpecRound == InitRound /\ [][NextRound]_vars

\* ------------------------------------------------------------------ C36
\* C36: for every value v >= 0 and step s > 0, round_step_size(v, s) and
\* round_price(v, s) return a multiple of s that is at most v and more than
\* v - s, with the decimal places of the step.
C36_RoundsDownToStep ==
    ev.op = "rounded" =>
      /\ ev.result % ev.step = 0
      /\ ev.result <= ev.value
      /\ ev.result > ev.value - ev.step

\* ------------------------------------------------------------------ C37
\* The stop-loss of add_position: the entry price less (long) or plus
\* (short) the initial stop percentage of it.
StopLossAtEntry(position) ==
    /\ position.stop_loss # None
    /\ position.stop_loss =
         IF position.side = "BUY"
         THEN position.entry_price
                - (position.entry_price * position.initial_stop_percent) \div 10000
         ELSE position.entry_price
                + (position.entry_price * position.initial_stop_percent) \div 10000

FixedFields == {"stop_loss", "entry_price", "quantity", "side", "order_id"}

\* C37: in every reachable state the stop_loss of every open position is
\* set and equals entry_price * (1 - p/100) for a long and entry_price *
\* (1 + p/100) for a short position, p the initial stop percentage; and
\* update_trailing_stop and should_close_position leave stop_loss,
\* entry_price, quantity, side and order_id of every position as they were.
C37_StopLossFixedAtEntry ==
    /\ [](\A s \in DOMAIN positions : StopLossAtEntry(positions[s]))
    /\ [][ev'.op \in {"trail", "ask"} =>
            /\ DOMAIN positions' = DOMAIN positions
            /\ \A s \in DOMAIN positions : \A f \in FixedFields :
                  positions'[s][f] = positions[s][f]]_vars

\* The long position entered at 50,000 with 2%: after an update that set
\* its trailing stop and a should_close_position call, its stop_loss is
\* 49,000.
C37_Witness ==
    /\ ev.op = "ask"
    /\ TrailSymbol \in DOMAIN positions
    /\ positions[TrailSymbol].side = "BUY"
    /\ positions[TrailSymbol].entry_price = ScenarioEntry
    /\ positions[TrailSymbol].trailing_stop # None
    /\ positions[TrailSymbol].highest_price > ScenarioEntry
    /\ positions[TrailSymbol].stop_loss = 49 * 10000

\* ================================================ the daily risk counters
\* Closes at a loss, at the entry price, at a profit and without a close
\* price, in a process that is started again at any time: the constructor
\* resets the daily risk state on a new day past the reset hour and when
\* daily_pnl.json cannot be read.  The state was reset on day 0; it is day 0
\* or the reset hour of day 1.  The write of daily_pnl.json may fail.
RiskPrices == ClosePrices \cup {EntryPrice, None}

RiskClocks == {InitClock, [day |-> 1, hour |-> reset_hour_utc]}

InitRisk ==
    /\ saving = SaveIdle
    /\ config = DefaultConfig
    /\ positions = EmptyDict
    /\ diskPositions = EmptyDict
    /\ clock \in RiskClocks
    /\ daily_pnl = FreshDaily(InitClock)
    /\ dailyFile = <<daily_pnl>>
    /\ tradeLog = <<>>
    /\ exFree = [s \in Symbols |-> 0]
    /\ exLocked = [s \in Symbols |-> 0]
    /\ ev = [op |-> "init"]
    /\ exOrder = NoOrder
    /\ buy = BuyIdle

RiskClose(symbol) == LedgerRemoveWith(symbol, RiskPrices, DailyRemoveIO)

NextRisk ==
    \/ Restart
    \/ \E symbol \in DailySymbols : DailyOpen(symbol)
    \/ \E symbol \in DailySymbols : RiskClose(symbol)

SpecRisk == InitRisk /\ [][NextRisk]_vars

\* ------------------------------------------------------------------ C38
Counters == {"trades_count", "wins", "losses"}

\* The step is a close with a close price: it has written the trade.
PricedClose == ev'.op = "remove" /\ ev'.priced /\ ~ev'.raised

\* C38: in every state wins + losses = trades_count and the three counters
\* are not negative; a step that is not a start of the process, which may
\* reset the state, decreases none of them; and a close with a close price
\* increases trades_count by exactly 1, and wins when the profit is above
\* zero, losses otherwise.
C38_CountersAddUp ==
    /\ [](/\ daily_pnl.wins + daily_pnl.losses = daily_pnl.trades_count
          /\ \A c \in Counters : daily_pnl[c] >= 0)
    /\ [][/\ ev'.op # "restart" =>
               \A c \in Counters : daily_pnl'[c] >= daily_pnl[c]
          /\ ev'.op = "restart" =>
               \/ \A c \in Counters : daily_pnl'[c] = 0
               \/ dailyFile # <<>> /\ daily_pnl' = dailyFile[1]
          /\ PricedClose =>
               LET usd == tradeLog'[Len(tradeLog')].profit_usd
               IN  /\ Len(tradeLog') = Len(tradeLog) + 1
                   /\ daily_pnl'.trades_count = daily_pnl.trades_count + 1
                   /\ daily_pnl'.wins = daily_pnl.wins + (IF usd > 0 THEN 1 ELSE 0)
                   /\ daily_pnl'.losses = daily_pnl.losses + (IF usd > 0 THEN 0 ELSE 1)
          /\ (ev'.op = "remove" /\ ~ev'.priced) =>
               daily_pnl' = daily_pnl]_vars

\* After a reset, a close at the entry price: the profit is zero and the
\* close is the day's first trade and a loss.
C38_Witness ==
    /\ ev.op = "remove" /\ ev.priced
    /\ daily_pnl.reset_date.day > 0
    /\ tradeLog # <<>>
    /\ tradeLog[Len(tradeLog)].profit_usd = 0
    /\ daily_pnl.trades_count = 1
    /\ daily_pnl.losses = 1
    /\ daily_pnl.wins = 0

====
